---- MODULE Spec2Model ----
(***************************************************************************)
(* Model of the SSE streaming reader of the data-analysis endpoint:        *)
(* RawClient.AnalyzeDataStream, DataAnalysisStream.readLine / ReadEvent,   *)
(* and timeoutReader.Read, together with the bufio.Reader line primitive   *)
(* and the JSON decode they rest on.                                       *)
(*                                                                         *)
(* A string of the program is a sequence of bytes. A byte is a string: the *)
(* printable bytes and \t, \n, \f, \r are the one-character strings, the   *)
(* byte 0x00 is "", and every other byte is "x" with its two hex digits     *)
(* ("x08" is the byte 0x08).                                               *)
(***************************************************************************)
EXTENDS Integers, Sequences, FiniteSets, TLC

(***************************************************************************)
(* Byte strings                                                            *)
(***************************************************************************)
NL == "\n"
CR == "\r"

\* F applied to the value of v, v being evaluated once
With(v, F(_)) == CHOOSE r \in {F(x) : x \in {v}} : TRUE

Min(a, b) == IF a < b THEN a ELSE b

Max(a, b) == IF a > b THEN a ELSE b

\* s[from..] (1-based), empty when from is past the end
Drop(s, from) == SubSeq(s, from, Len(s))

\* s[..upto]
Take(s, upto) == SubSeq(s, 1, upto)

\* the byte 0x00, which is also a byte of a buffer that was never written
ZeroByte == ""

HexDigits == <<"0", "1", "2", "3", "4", "5", "6", "7", "8", "9", "a", "b", "c", "d", "e", "f">>

HexUpper == <<"0", "1", "2", "3", "4", "5", "6", "7", "8", "9", "A", "B", "C", "D", "E", "F">>

\* the bytes 0x20 .. 0x7e (the grave accent, which a string of the module cannot
\* hold, by its hex name)
Printable ==
    <<" ", "!", "\"", "#", "$", "%", "&", "'", "(", ")", "*", "+", ",", "-", ".", "/",
      "0", "1", "2", "3", "4", "5", "6", "7", "8", "9", ":", ";", "<", "=", ">", "?",
      "@", "A", "B", "C", "D", "E", "F", "G", "H", "I", "J", "K", "L", "M", "N", "O",
      "P", "Q", "R", "S", "T", "U", "V", "W", "X", "Y", "Z", "[", "\\", "]", "^", "_",
      "x60", "a", "b", "c", "d", "e", "f", "g", "h", "i", "j", "k", "l", "m", "n", "o",
      "p", "q", "r", "s", "t", "u", "v", "w", "x", "y", "z", "{", "|", "}", "~">>

\* the byte of value n, 0 <= n <= 255
Byte(n) ==
    IF n = 0 THEN ZeroByte
    ELSE IF n = 9 THEN "\t"
    ELSE IF n = 10 THEN NL
    ELSE IF n = 12 THEN "\f"
    ELSE IF n = 13 THEN CR
    ELSE IF n >= 32 /\ n <= 126 THEN Printable[n - 31]
    ELSE "x" \o HexDigits[(n \div 16) + 1] \o HexDigits[(n % 16) + 1]

\* the bytes >= utf8.RuneSelf
HighBytes == {Byte(n) : n \in 128..255}

\* the value of each byte
ByteVals == [c \in {Byte(n) : n \in 0..255} |-> CHOOSE n \in 0..255 : Byte(n) = c]

\* the value of byte c
ByteVal(c) == ByteVals[c]

\* strings.HasPrefix
HasPrefix(s, p) == Len(s) >= Len(p) /\ SubSeq(s, 1, Len(p)) = p

\* strings.TrimPrefix
TrimPrefix(s, p) == IF HasPrefix(s, p) THEN Drop(s, Len(p) + 1) ELSE s

RECURSIVE Join(_, _)
\* strings.Join
Join(elems, sep) ==
    IF Len(elems) = 0 THEN <<>>
    ELSE IF Len(elems) = 1 THEN elems[1]
    ELSE elems[1] \o sep \o Join(Tail(elems), sep)

\* index of the first occurrence of byte c in s, 0 when absent (bytes.IndexByte + 1)
IndexByte(s, c) ==
    IF \E i \in 1..Len(s) : s[i] = c
    THEN CHOOSE i \in 1..Len(s) : s[i] = c /\ \A j \in 1..(i - 1) : s[j] # c
    ELSE 0

(***************************************************************************)
(* encoding/json: the scanner (checkValid) and the decode of an object     *)
(* into the four string fields of DataAnalysisStreamEvent.                 *)
(***************************************************************************)
Digits == {"0", "1", "2", "3", "4", "5", "6", "7", "8", "9"}

JsonWS == {" ", "\t", "\n", "\r"}

\* the bytes < 0x20, which the scanner refuses inside a string literal
ControlBytes == {Byte(n) : n \in 0..31}

\* the bytes that may follow a backslash, 'u' apart
SimpleEscapes == {"\"", "\\", "/", "b", "f", "n", "r", "t"}

IsHex(c) == \E k \in 1..16 : c \in {HexDigits[k], HexUpper[k]}

HexVal(c) == (CHOOSE k \in 1..16 : c \in {HexDigits[k], HexUpper[k]}) - 1

\* getu4(s[i:]): the rune of the escape \uXXXX that starts at i, -1 when there is none
Getu4(s, i) ==
    IF i + 5 <= Len(s) /\ s[i] = "\\" /\ s[i + 1] = "u" /\ \A k \in 2..5 : IsHex(s[i + k])
    THEN HexVal(s[i + 2]) * 4096 + HexVal(s[i + 3]) * 256 + HexVal(s[i + 4]) * 16 + HexVal(s[i + 5])
    ELSE -1

\* utf16.IsSurrogate: 0xd800 <= r < 0xe000
IsSurrogate(r) == r >= 55296 /\ r < 57344

\* utf16.DecodeRune: the rune of a surrogate pair, unicode.ReplacementChar (0xfffd)
\* when (r1, r2) is no pair
DecodeSurrogates(r1, r2) ==
    IF r1 >= 55296 /\ r1 < 56320 /\ r2 >= 56320 /\ r2 < 57344
    THEN (r1 - 55296) * 1024 + (r2 - 56320) + 65536
    ELSE 65533

\* utf8.EncodeRune: the bytes of rune r
EncodeRune(r) ==
    IF r < 0 \/ r > 1114111 \/ IsSurrogate(r) THEN <<Byte(239), Byte(191), Byte(189)>>
    ELSE IF r < 128 THEN <<Byte(r)>>
    ELSE IF r < 2048 THEN <<Byte(192 + (r \div 64)), Byte(128 + (r % 64))>>
    ELSE IF r < 65536
    THEN <<Byte(224 + (r \div 4096)), Byte(128 + ((r \div 64) % 64)), Byte(128 + (r % 64))>>
    ELSE <<Byte(240 + (r \div 262144)), Byte(128 + ((r \div 4096) % 64)),
           Byte(128 + ((r \div 64) % 64)), Byte(128 + (r % 64))>>

\* s[i] exists and has a value in lo..hi
ByteIn(s, i, lo, hi) ==
    i <= Len(s) /\ With(ByteVal(s[i]), LAMBDA v : v >= lo /\ v <= hi)

\* utf8.DecodeRune(s[i:]): the number of bytes of the well-formed encoding of a rune
\* that starts at i, 0 when there is none (RuneError, size 1)
RuneLen(s, i) ==
    With(ByteVal(s[i]), LAMBDA v :
        IF v < 128 THEN 1
        ELSE IF v >= 194 /\ v <= 223
        THEN IF ByteIn(s, i + 1, 128, 191) THEN 2 ELSE 0
        ELSE IF v >= 224 /\ v <= 239
        THEN IF /\ ByteIn(s, i + 1, IF v = 224 THEN 160 ELSE 128, IF v = 237 THEN 159 ELSE 191)
                /\ ByteIn(s, i + 2, 128, 191)
             THEN 3 ELSE 0
        ELSE IF v >= 240 /\ v <= 244
        THEN IF /\ ByteIn(s, i + 1, IF v = 240 THEN 144 ELSE 128, IF v = 244 THEN 143 ELSE 191)
                /\ ByteIn(s, i + 2, 128, 191)
                /\ ByteIn(s, i + 3, 128, 191)
             THEN 4 ELSE 0
        ELSE 0)

\* utf8.DecodeRune(s[i:]) where RuneLen(s, i) = n > 0: the rune decoded
RuneAt(s, i, n) ==
    With(ByteVal(s[i]), LAMBDA v :
        IF n = 1 THEN v
        ELSE IF n = 2 THEN (v - 192) * 64 + (ByteVal(s[i + 1]) - 128)
        ELSE IF n = 3
        THEN (v - 224) * 4096 + (ByteVal(s[i + 1]) - 128) * 64 + (ByteVal(s[i + 2]) - 128)
        ELSE (v - 240) * 262144 + (ByteVal(s[i + 1]) - 128) * 4096
                 + (ByteVal(s[i + 2]) - 128) * 64 + (ByteVal(s[i + 3]) - 128))

\* utf8.DecodeLastRune(s), s not empty: the number of bytes of the well-formed encoding
\* that ends s, 0 when there is none (RuneError, size 1); the start is looked for among
\* the last utf8.UTFMax bytes, at the nearest byte that is not a continuation byte
LastRuneLen(s) ==
    With(Len(s), LAMBDA e :
        IF ByteVal(s[e]) < 128 THEN 1
        ELSE With({k \in 2..4 : k <= e /\ ~ByteIn(s, e - k + 1, 128, 191)}, LAMBDA starts :
                IF starts = {} THEN 0
                ELSE With(CHOOSE k \in starts : \A m \in starts : k <= m, LAMBDA k :
                        IF RuneLen(s, e - k + 1) = k THEN k ELSE 0)))

\* unicode.IsSpace: the white space of Latin-1 ('\t', '\n', '\v', '\f', '\r', ' ',
\* U+0085, U+00A0) and the other runes of the property White_Space (U+1680,
\* U+2000..U+200A, U+2028, U+2029, U+202F, U+205F, U+3000)
IsSpace(r) ==
    r \in {9, 10, 11, 12, 13, 32, 133, 160, 5760, 8232, 8233, 8239, 8287, 12288}
              \cup (8192..8202)

RECURSIVE TrimLeftSpace(_)
\* strings.TrimLeftFunc(s, unicode.IsSpace); an ill-formed byte decodes to
\* utf8.RuneError, which is no white space
TrimLeftSpace(s) ==
    IF Len(s) = 0 THEN s
    ELSE With(RuneLen(s, 1), LAMBDA n :
            IF n > 0 /\ IsSpace(RuneAt(s, 1, n)) THEN TrimLeftSpace(Drop(s, n + 1)) ELSE s)

RECURSIVE TrimRightSpace(_)
\* strings.TrimRightFunc(s, unicode.IsSpace)
TrimRightSpace(s) ==
    IF Len(s) = 0 THEN s
    ELSE With(LastRuneLen(s), LAMBDA n :
            IF n > 0 /\ IsSpace(RuneAt(s, Len(s) - n + 1, n))
            THEN TrimRightSpace(Take(s, Len(s) - n)) ELSE s)

\* strings.TrimSpace: the bytes of ASCII white space are trimmed from both ends and,
\* from the first byte >= utf8.RuneSelf met on, strings.TrimFunc(s, unicode.IsSpace)
\* trims rune by rune; both trim the white space runes of both ends
TrimSpace(s) == TrimRightSpace(TrimLeftSpace(s))

RECURSIVE SkipWS(_, _)
\* first index >= i that holds no JSON white space (Len(s)+1 at the end)
SkipWS(s, i) ==
    IF i <= Len(s) /\ s[i] \in JsonWS THEN SkipWS(s, i + 1) ELSE i

RECURSIVE ScanString(_, _)
\* i is the index after the opening quote; the index after the closing quote, 0 on a syntax error
ScanString(s, i) ==
    IF i > Len(s) THEN 0
    ELSE IF s[i] = "\"" THEN i + 1
    ELSE IF s[i] = "\\"
         THEN IF i + 1 <= Len(s) /\ s[i + 1] \in SimpleEscapes
              THEN ScanString(s, i + 2)
              ELSE IF Getu4(s, i) >= 0 THEN ScanString(s, i + 6)
              ELSE 0
    ELSE IF s[i] \in ControlBytes THEN 0
    ELSE ScanString(s, i + 1)

\* the byte that the escape of backslash and c stands for, c in SimpleEscapes
Unescape(c) ==
    CASE c = "b" -> Byte(8)
      [] c = "f" -> "\f"
      [] c = "n" -> "\n"
      [] c = "r" -> "\r"
      [] c = "t" -> "\t"
      [] OTHER -> c

\* the bytes that the escape \uXXXX at i stands for and the bytes of s it takes:
\* two escapes that are a surrogate pair are one rune, a surrogate alone is the
\* replacement character
UnquoteU(s, i) ==
    With(Getu4(s, i), LAMBDA rr :
        IF IsSurrogate(rr)
        THEN With(DecodeSurrogates(rr, Getu4(s, i + 6)), LAMBDA dec :
                IF dec # 65533
                THEN [bytes |-> EncodeRune(dec), n |-> 12]
                ELSE [bytes |-> EncodeRune(65533), n |-> 6])
        ELSE [bytes |-> EncodeRune(rr), n |-> 6])

RECURSIVE StringValue(_, _)
\* unquote: the decoded content of the valid string literal whose opening quote is
\* at i - 1; bytes that are no well-formed UTF-8 become the replacement character
StringValue(s, i) ==
    IF s[i] = "\"" THEN <<>>
    ELSE IF s[i] = "\\"
    THEN IF s[i + 1] = "u"
         THEN With(UnquoteU(s, i), LAMBDA u : u.bytes \o StringValue(s, i + u.n))
         ELSE <<Unescape(s[i + 1])>> \o StringValue(s, i + 2)
    ELSE IF s[i] \notin HighBytes THEN <<s[i]>> \o StringValue(s, i + 1)
    ELSE With(RuneLen(s, i), LAMBDA n :
            IF n = 0 THEN EncodeRune(65533) \o StringValue(s, i + 1)
            ELSE SubSeq(s, i, i + n - 1) \o StringValue(s, i + n))

RECURSIVE ScanDigits(_, _)
\* first index >= i that holds no digit
ScanDigits(s, i) ==
    IF i <= Len(s) /\ s[i] \in Digits THEN ScanDigits(s, i + 1) ELSE i

\* exponent part, optional, starting at i
ScanExp(s, i) ==
    IF i <= Len(s) /\ s[i] \in {"e", "E"}
    THEN With(IF i + 1 <= Len(s) /\ s[i + 1] \in {"+", "-"} THEN i + 2 ELSE i + 1, LAMBDA j :
            With(ScanDigits(s, j), LAMBDA k : IF k = j THEN 0 ELSE k))
    ELSE i

\* fraction part, optional, starting at i
ScanFrac(s, i) ==
    IF i <= Len(s) /\ s[i] = "."
    THEN With(ScanDigits(s, i + 1), LAMBDA k : IF k = i + 1 THEN 0 ELSE ScanExp(s, k))
    ELSE ScanExp(s, i)

\* -?(0|[1-9][0-9]*)(\.[0-9]+)?([eE][+-]?[0-9]+)?
ScanNumber(s, i) ==
    With(IF s[i] = "-" THEN i + 1 ELSE i, LAMBDA j :
        IF j > Len(s) \/ s[j] \notin Digits THEN 0
        ELSE IF s[j] = "0" THEN ScanFrac(s, j + 1)
        ELSE With(ScanDigits(s, j), LAMBDA k : ScanFrac(s, k)))

ScanLiteral(s, i, lit) ==
    IF i + Len(lit) - 1 <= Len(s) /\ SubSeq(s, i, i + Len(lit) - 1) = lit
    THEN i + Len(lit) ELSE 0

RECURSIVE ScanValue(_, _)
RECURSIVE ScanMembers(_, _)
RECURSIVE ScanElems(_, _)
\* the index after the JSON value that starts at i, 0 on a syntax error
ScanValue(s, i) ==
    IF i > Len(s) THEN 0
    ELSE CASE s[i] = "{" ->
                With(SkipWS(s, i + 1), LAMBDA j :
                    IF j <= Len(s) /\ s[j] = "}" THEN j + 1 ELSE ScanMembers(s, j))
           [] s[i] = "[" ->
                With(SkipWS(s, i + 1), LAMBDA j :
                    IF j <= Len(s) /\ s[j] = "]" THEN j + 1 ELSE ScanElems(s, j))
           [] s[i] = "\"" -> ScanString(s, i + 1)
           [] s[i] \in Digits \cup {"-"} -> ScanNumber(s, i)
           [] s[i] = "t" -> ScanLiteral(s, i, <<"t", "r", "u", "e">>)
           [] s[i] = "f" -> ScanLiteral(s, i, <<"f", "a", "l", "s", "e">>)
           [] s[i] = "n" -> ScanLiteral(s, i, <<"n", "u", "l", "l">>)
           [] OTHER -> 0

\* after a value that ended before index e (0 on error) inside an object (close = "}")
\* or an array (close = "]"): the index after the closing byte, 0 on a syntax error
ScanAfterValue(s, e, close) ==
    IF e = 0 THEN 0
    ELSE With(SkipWS(s, e), LAMBDA n :
            IF n > Len(s) THEN 0
            ELSE IF s[n] = "," THEN With(SkipWS(s, n + 1), LAMBDA j :
                                        IF close = "}" THEN ScanMembers(s, j) ELSE ScanElems(s, j))
            ELSE IF s[n] = close THEN n + 1
            ELSE 0)

\* the members of an object from the key at j on; the index after the closing brace
ScanMembers(s, j) ==
    IF j > Len(s) \/ s[j] # "\"" THEN 0
    ELSE With(ScanString(s, j + 1), LAMBDA k :
            IF k = 0 THEN 0
            ELSE With(SkipWS(s, k), LAMBDA c :
                    IF c > Len(s) \/ s[c] # ":" THEN 0
                    ELSE With(SkipWS(s, c + 1), LAMBDA v :
                            With(ScanValue(s, v), LAMBDA e : ScanAfterValue(s, e, "}")))))

\* the elements of an array from the value at j on; the index after the closing bracket
ScanElems(s, j) == With(ScanValue(s, j), LAMBDA e : ScanAfterValue(s, e, "]"))

\* json.checkValid: exactly one value, white space around it allowed
JsonValid(s) ==
    With(SkipWS(s, 1), LAMBDA i :
        With(ScanValue(s, i), LAMBDA e : e # 0 /\ SkipWS(s, e) = Len(s) + 1))

UpperLetters == <<"A", "B", "C", "D", "E", "F", "G", "H", "I", "J", "K", "L", "M",
                  "N", "O", "P", "Q", "R", "S", "T", "U", "V", "W", "X", "Y", "Z">>

LowerLetters == <<"a", "b", "c", "d", "e", "f", "g", "h", "i", "j", "k", "l", "m",
                  "n", "o", "p", "q", "r", "s", "t", "u", "v", "w", "x", "y", "z">>

ToLower(c) ==
    IF \E i \in 1..26 : UpperLetters[i] = c
    THEN LowerLetters[CHOOSE i \in 1..26 : UpperLetters[i] = c]
    ELSE c

RECURSIVE FoldKey(_)
\* the case folding under which encoding/json matches an object key to a field:
\* ASCII letters fold by case, and of the other runes U+017F (long s) folds with s
\* and U+212A (Kelvin sign) with k
FoldKey(key) ==
    IF key = <<>> THEN <<>>
    ELSE IF Len(key) >= 2 /\ Take(key, 2) = <<Byte(197), Byte(191)>>
    THEN <<"s">> \o FoldKey(Drop(key, 3))
    ELSE IF Len(key) >= 3 /\ Take(key, 3) = <<Byte(226), Byte(132), Byte(170)>>
    THEN <<"k">> \o FoldKey(Drop(key, 4))
    ELSE <<ToLower(key[1])>> \o FoldKey(Drop(key, 2))

\* the JSON keys of the event's string fields
KeyType == <<"t", "y", "p", "e">>

KeySource == <<"s", "o", "u", "r", "c", "e">>

KeyStepType == <<"s", "t", "e", "p", "_", "t", "y", "p", "e">>

KeyStepName == <<"s", "t", "e", "p", "_", "n", "a", "m", "e">>

\* the struct field a JSON key decodes into, "" for a key the struct does not have
FieldOf(key) ==
    With(FoldKey(key), LAMBDA k :
        CASE k = KeyType -> "Type"
          [] k = KeySource -> "Source"
          [] k = KeyStepType -> "StepType"
          [] k = KeyStepName -> "StepName"
          [] OTHER -> "")

\* var event DataAnalysisStreamEvent
ZeroEvent ==
    [Type |-> <<>>, Source |-> <<>>, StepType |-> <<>>, StepName |-> <<>>, RawData |-> <<>>]

\* the member with its key at j, decoded into d = [ev, typeErr]
DecodeMember(s, j, v, d) ==
    With(FieldOf(StringValue(s, j + 1)), LAMBDA f :
        IF f = "" THEN d
        ELSE IF s[v] = "\"" THEN [d EXCEPT !.ev[f] = StringValue(s, v + 1)]
        ELSE IF s[v] = "n" THEN d
        ELSE [d EXCEPT !.typeErr = TRUE])

RECURSIVE DecodeMembers(_, _, _)
\* decode the members of a valid object from the key at j on into d.ev; a value of
\* the wrong type leaves its field alone, is remembered in d.typeErr, and the
\* decode goes on (json.Unmarshal reports an UnmarshalTypeError at the end)
DecodeMembers(s, j, d) ==
    With(SkipWS(s, SkipWS(s, ScanString(s, j + 1)) + 1), LAMBDA v :
        With(SkipWS(s, ScanValue(s, v)), LAMBDA n :
            With(DecodeMember(s, j, v, d), LAMBDA d2 :
                IF s[n] = ","
                THEN With(SkipWS(s, n + 1), LAMBDA j2 : DecodeMembers(s, j2, d2))
                ELSE d2)))

\* json.Unmarshal(data, &event): [ev |-> the event after the call, err |-> "nil" | "syntax" | "type"]
Unmarshal(s, ev) ==
    IF ~JsonValid(s) THEN [ev |-> ev, err |-> "syntax"]
    ELSE With(SkipWS(s, 1), LAMBDA i :
            IF s[i] = "n" THEN [ev |-> ev, err |-> "nil"]
            ELSE IF s[i] # "{" THEN [ev |-> ev, err |-> "type"]
            ELSE With(SkipWS(s, i + 1), LAMBDA j :
                    IF s[j] = "}" THEN [ev |-> ev, err |-> "nil"]
                    ELSE With(DecodeMembers(s, j, [ev |-> ev, typeErr |-> FALSE]), LAMBDA d :
                            [ev |-> d.ev, err |-> IF d.typeErr THEN "type" ELSE "nil"])))

(***************************************************************************)
(* bufio.Reader: [buf, size, r, w, err, s], r and w counted from 0 as in    *)
(* Go.  size is len(b.buf); buf holds the buffer up to the last byte ever   *)
(* written, the bytes after it being zero.  s is the local variable s of    *)
(* the ReadSlice call in progress, the number of unread bytes it has        *)
(* searched before its last call of fill(); it is 0 outside ReadSlice.      *)
(***************************************************************************)
MinReadBufferSize == 16

DefaultBufferSize == 4096

\* bufio.NewReaderSize
NewReaderSize(size) ==
    [buf |-> <<>>, size |-> Max(size, MinReadBufferSize), r |-> 0, w |-> 0, err |-> "nil",
     s |-> 0]

\* the unread bytes b.buf[b.r:b.w]
Buffered(b) == SubSeq(b.buf, b.r + 1, b.w)

\* buf with data copied in from offset off (0-based) on: copy(buf[off:], data)
CopyAt(buf, off, data) ==
    [i \in 1..(IF Len(data) = 0 THEN Len(buf) ELSE Max(Len(buf), off + Len(data))) |->
        IF i > off /\ i <= off + Len(data) THEN data[i - off]
        ELSE IF i <= Len(buf) THEN buf[i]
        ELSE ZeroByte]

\* fill() that starts the buffer again without keeping the unread bytes
FillSlideDropsUnread(b) ==
    [b EXCEPT !.w = 0, !.r = 0]

\* the first half of fill(): slide the unread bytes to the start of the buffer
FillSlide(b) ==
    IF b.r > 0
    THEN [b EXCEPT !.buf = CopyAt(b.buf, 0, Buffered(b)), !.w = b.w - b.r, !.r = 0]
    ELSE b

\* the second half of fill(): rd.Read(b.buf[b.w:]) has returned (n, err)
FillReturn(b, n, err) ==
    [b EXCEPT !.w = b.w + n, !.err = IF err # "nil" THEN err ELSE b.err]

\* ReadSlice('\n') with i the index in the unread bytes of the line feed found, 0 when none
ReadSliceAt(b, data, i) ==
    IF i > 0
    THEN [fill |-> FALSE, b |-> [b EXCEPT !.r = b.r + i, !.s = 0],
          line |-> Take(data, i), err |-> "nil"]
    ELSE IF b.err # "nil"
    THEN [fill |-> FALSE, b |-> [b EXCEPT !.r = b.w, !.err = "nil", !.s = 0],
          line |-> data, err |-> b.err]
    ELSE IF b.w - b.r >= b.size
    THEN [fill |-> FALSE, b |-> [b EXCEPT !.r = b.w, !.s = 0],
          line |-> b.buf, err |-> "ErrBufferFull"]
    ELSE [fill |-> TRUE, b |-> [FillSlide(b) EXCEPT !.s = b.w - b.r],
          line |-> <<>>, err |-> "nil"]

\* one pass of the loop of ReadSlice('\n'), up to its return or its call of fill(): the
\* search is bytes.IndexByte(b.buf[b.r+s:b.w], '\n'), the bytes searched before are not
\* searched again
ReadSlice(b) ==
    With(Buffered(b), LAMBDA data :
        With(IndexByte(Drop(data, b.s + 1), NL), LAMBDA k :
            ReadSliceAt(b, data, IF k = 0 THEN 0 ELSE b.s + k)))

\* ReadLine that drops the line feed but leaves a carriage return before it
ReadLineKeepsCR(rs) ==
    IF rs.err = "ErrBufferFull"
    THEN [b |-> rs.b, line |-> rs.line, isPrefix |-> TRUE, err |-> "nil"]
    ELSE IF Len(rs.line) = 0
    THEN [b |-> rs.b, line |-> <<>>, isPrefix |-> FALSE, err |-> rs.err]
    ELSE [b |-> rs.b, isPrefix |-> FALSE, err |-> "nil",
          line |-> IF rs.line[Len(rs.line)] = NL THEN Take(rs.line, Len(rs.line) - 1) ELSE rs.line]

\* ReadLine on the result of ReadSlice: [b, line, isPrefix, err]
ReadLine(rs) ==
    IF rs.err = "ErrBufferFull"
    THEN IF Len(rs.line) > 0 /\ rs.line[Len(rs.line)] = CR
         THEN [b |-> [rs.b EXCEPT !.r = rs.b.r - 1],
               line |-> Take(rs.line, Len(rs.line) - 1), isPrefix |-> TRUE, err |-> "nil"]
         ELSE [b |-> rs.b, line |-> rs.line, isPrefix |-> TRUE, err |-> "nil"]
    ELSE IF Len(rs.line) = 0
    THEN [b |-> rs.b, line |-> <<>>, isPrefix |-> FALSE, err |-> rs.err]
    ELSE With(Len(rs.line), LAMBDA n :
            [b |-> rs.b, isPrefix |-> FALSE, err |-> "nil",
             line |-> Take(rs.line, n - (IF rs.line[n] # NL THEN 0
                                         ELSE IF n > 1 /\ rs.line[n - 1] = CR THEN 2 ELSE 1))])

(***************************************************************************)
(* DataAnalysisStream.readLine and ReadEvent, from a point where the       *)
(* buffered reader holds what the last read left, up to the next read of   *)
(* the body (st = "fill") or the return (st = "ret").                      *)
(***************************************************************************)
\* strings.Contains(err.Error(), "read timeout")
IsTimeoutErr(err) == err = "timeout"

\* readLine that returns the first chunk of a line as the line
readLineFirstChunk(b, acc) ==
    With(ReadSlice(b), LAMBDA rs :
        IF rs.fill THEN [st |-> "fill", b |-> rs.b, acc |-> acc, line |-> <<>>, err |-> "nil"]
        ELSE With(ReadLine(rs), LAMBDA rl :
                IF rl.err # "nil"
                THEN [st |-> "ret", b |-> rl.b, acc |-> <<>>, line |-> <<>>, err |-> rl.err]
                ELSE [st |-> "ret", b |-> rl.b, acc |-> <<>>, line |-> rl.line, err |-> "nil"]))

RECURSIVE readLine(_, _)
\* readLine that returns io.EOF at the end of the stream whatever it has accumulated
readLineDropsAtEOF(b, acc) ==
    With(ReadSlice(b), LAMBDA rs :
        IF rs.fill THEN [st |-> "fill", b |-> rs.b, acc |-> acc, line |-> <<>>, err |-> "nil"]
        ELSE With(ReadLine(rs), LAMBDA rl :
                IF rl.err # "nil"
                THEN [st |-> "ret", b |-> rl.b, acc |-> <<>>, line |-> <<>>, err |-> rl.err]
                ELSE IF rl.isPrefix
                THEN With(acc \o rl.line, LAMBDA acc2 : readLine(rl.b, acc2))
                ELSE [st |-> "ret", b |-> rl.b, acc |-> <<>>, line |-> acc \o rl.line,
                      err |-> "nil"]))

\* readLine after s.reader.ReadLine() has returned rl = [line, isPrefix, err], acc being
\* the local `line` accumulated so far: it returns (st = "ret", with line and err) or
\* goes round its loop again (st = "more", with acc the local `line`)
readLineNext(acc, rl) ==
    IF rl.err # "nil"
    THEN IF IsTimeoutErr(rl.err)
         THEN [st |-> "ret", acc |-> <<>>, line |-> <<>>, err |-> rl.err]
         ELSE IF rl.err = "EOF" /\ Len(acc) > 0
         THEN [st |-> "ret", acc |-> <<>>, line |-> acc, err |-> "nil"]
         ELSE [st |-> "ret", acc |-> <<>>, line |-> <<>>, err |-> rl.err]
    ELSE IF rl.isPrefix
    THEN [st |-> "more", acc |-> acc \o rl.line, line |-> <<>>, err |-> "nil"]
    ELSE [st |-> "ret", acc |-> <<>>, line |-> acc \o rl.line, err |-> "nil"]

\* acc is the local `line` accumulated so far
readLine(b, acc) ==
    With(ReadSlice(b), LAMBDA rs :
        IF rs.fill THEN [st |-> "fill", b |-> rs.b, acc |-> acc, line |-> <<>>, err |-> "nil"]
        ELSE With(ReadLine(rs), LAMBDA rl :
                With(readLineNext(acc, rl), LAMBDA o :
                    IF o.st = "more" THEN readLine(rl.b, o.acc)
                    ELSE [st |-> "ret", b |-> rl.b, acc |-> <<>>, line |-> o.line,
                          err |-> o.err])))

DataPrefix == <<"d", "a", "t", "a", ":", " ">>

EventPrefix == <<"e", "v", "e", "n", "t", ":", " ">>

\* json.Unmarshal([]byte(dataStr), &event) on var event with RawData set
Decode(dataLines) ==
    With(Join(dataLines, <<NL>>), LAMBDA dataStr :
        Unmarshal(dataStr, [ZeroEvent EXCEPT !.RawData = dataStr]))

\* event.Type = eventType when an event: line was seen
WithEventType(ev, eventType) ==
    IF eventType # <<>> THEN [ev EXCEPT !.Type = eventType] ELSE ev

\* Dispatch that lets a "type" of the JSON body win over the event: line
DispatchJsonTypeWins(dataLines, eventType) ==
    With(Decode(dataLines), LAMBDA u :
        [kind |-> "event", err |-> "nil",
         ev |-> IF u.ev.Type = <<>> THEN WithEventType(u.ev, eventType) ELSE u.ev])

\* Dispatch that returns the decode error to the caller
DispatchStrict(dataLines, eventType) ==
    With(Decode(dataLines), LAMBDA u :
        IF u.err # "nil"
        THEN [kind |-> "error", err |-> "json", ev |-> ZeroEvent]
        ELSE [kind |-> "event", err |-> "nil", ev |-> WithEventType(u.ev, eventType)])

\* the event built from the pending data lines, at a blank line or at end of stream:
\* what ReadEvent returns, [kind, err, ev]; both branches of the decode's error
\* check return the event with a nil error
Dispatch(dataLines, eventType) ==
    With(Decode(dataLines), LAMBDA u :
        IF u.err # "nil"
        THEN [kind |-> "event", err |-> "nil", ev |-> WithEventType(u.ev, eventType)]
        ELSE [kind |-> "event", err |-> "nil", ev |-> WithEventType(u.ev, eventType)])

NoEvent == [Type |-> <<>>, Source |-> <<>>, StepType |-> <<>>, StepName |-> <<>>, RawData |-> <<>>]

\* the error handling of ReadEvent without the flush of the last event
OnReadErrorNoFlush(c, err) ==
    IF err = "EOF"
    THEN [kind |-> "eof", err |-> "EOF", ev |-> NoEvent]
    ELSE [kind |-> "error", err |-> err, ev |-> NoEvent]

\* readLine returned err: the last event if data lines are pending at io.EOF, io.EOF
\* itself, or the error wrapped
OnReadError(c, err) ==
    IF err = "EOF"
    THEN IF Len(c.dataLines) > 0
         THEN Dispatch(c.dataLines, c.eventType)
         ELSE [kind |-> "eof", err |-> "EOF", ev |-> NoEvent]
    ELSE [kind |-> "error", err |-> err, ev |-> NoEvent]

\* the field handling of ReadEvent with a data: line replacing the pending ones
OnFieldLastDataOnly(c, line) ==
    IF HasPrefix(line, DataPrefix)
    THEN [c EXCEPT !.dataLines = <<TrimPrefix(line, DataPrefix)>>]
    ELSE IF HasPrefix(line, EventPrefix)
    THEN [c EXCEPT !.eventType = TrimPrefix(line, EventPrefix)]
    ELSE c

\* a line that is not empty: a data: line is kept, an event: line sets the type,
\* any other line is ignored
OnField(c, line) ==
    IF HasPrefix(line, DataPrefix)
    THEN [c EXCEPT !.dataLines = Append(@, TrimPrefix(line, DataPrefix))]
    ELSE IF HasPrefix(line, EventPrefix)
    THEN [c EXCEPT !.eventType = TrimPrefix(line, EventPrefix)]
    ELSE c

\* every empty line ends an event
DispatchesAtEveryBlank(c) == TRUE

\* an empty line ends the event when data lines are pending
DispatchesAtBlank(c) == Len(c.dataLines) > 0

RECURSIVE ReadEvent(_)
\* ReadEvent that forgets the event type at an empty line with no data lines pending
ReadEventResetsType(c) ==
    With(readLine(c.b, c.line), LAMBDA l :
        IF l.st = "fill"
        THEN [st |-> "fill", c |-> [c EXCEPT !.b = l.b, !.line = l.acc],
              res |-> [kind |-> "none", err |-> "nil", ev |-> NoEvent]]
        ELSE IF l.err # "nil"
        THEN [st |-> "ret", c |-> [c EXCEPT !.b = l.b, !.line = <<>>],
              res |-> OnReadError(c, l.err)]
        ELSE With([c EXCEPT !.b = l.b, !.line = <<>>, !.seen = Append(@, l.line)], LAMBDA c0 :
                IF l.line = <<>>
                THEN IF DispatchesAtBlank(c0)
                     THEN [st |-> "ret", c |-> c0, res |-> Dispatch(c0.dataLines, c0.eventType)]
                     ELSE ReadEvent([c0 EXCEPT !.eventType = <<>>])
                ELSE With(OnField(c0, l.line), LAMBDA c1 : ReadEvent(c1))))

\* ReadEvent after readLine has returned (line, err) to the call with the locals c: the
\* call returns (st = "ret", with res the result) or goes round its loop again
\* (st = "more")
ReadEventNext(c, line, err) ==
    IF err # "nil"
    THEN [st |-> "ret", c |-> c, res |-> OnReadError(c, err)]
    ELSE With([c EXCEPT !.seen = Append(@, line)], LAMBDA c0 :
            IF line = <<>>
            THEN IF DispatchesAtBlank(c0)
                 THEN [st |-> "ret", c |-> c0, res |-> Dispatch(c0.dataLines, c0.eventType)]
                 ELSE [st |-> "more", c |-> c0, res |-> [kind |-> "none", err |-> "nil", ev |-> NoEvent]]
            ELSE [st |-> "more", c |-> OnField(c0, line),
                  res |-> [kind |-> "none", err |-> "nil", ev |-> NoEvent]])

\* c = [b, line, dataLines, eventType, seen]: the reader, the locals of the call and
\* the lines readLine has returned to it so far; up to the next read of the body
\* (st = "fill") or the return (st = "ret", with res the result)
ReadEvent(c) ==
    With(readLine(c.b, c.line), LAMBDA l :
        IF l.st = "fill"
        THEN [st |-> "fill", c |-> [c EXCEPT !.b = l.b, !.line = l.acc],
              res |-> [kind |-> "none", err |-> "nil", ev |-> NoEvent]]
        ELSE With(ReadEventNext([c EXCEPT !.b = l.b, !.line = <<>>], l.line, l.err), LAMBDA o :
                IF o.st = "more" THEN ReadEvent(o.c)
                ELSE [st |-> "ret", c |-> o.c, res |-> o.res]))

(***************************************************************************)
(* The streams served to a session: a stream is a sequence of blocks, a    *)
(* block a sequence of lines; the bytes on the wire are computed from it.  *)
(***************************************************************************)
DataLine(v) == [k |-> "data", v |-> v]

EventLine(v) == [k |-> "event", v |-> v]

OtherLine(v) == [k |-> "other", v |-> v]

\* the bytes of a line on the wire, without its terminator
LineBytes(l) ==
    CASE l.k = "data" -> DataPrefix \o l.v
      [] l.k = "event" -> EventPrefix \o l.v
      [] OTHER -> l.v

\* a member of a JSON object: a string value (t = "str"), v being the string and text
\* what the server writes between the quotes, or any other value given by its text
StrMember(key, v) == [key |-> key, t |-> "str", v |-> v, text |-> v]

\* a string value that the server writes with escapes
EscMember(key, text, v) == [key |-> key, t |-> "str", v |-> v, text |-> text]

RawMember(key, v) == [key |-> key, t |-> "raw", v |-> v, text |-> v]

MemberBytes(m) ==
    <<"\"">> \o m.key \o <<"\"", ":">> \o
    (IF m.t = "str" THEN <<"\"">> \o m.text \o <<"\"">> ELSE m.text)

\* the text of the JSON object with these members
Render(members) ==
    <<"{">> \o Join([i \in 1..Len(members) |-> MemberBytes(members[i])], <<",">>) \o <<"}">>

JsonNull == <<"n", "u", "l", "l">>

\* a block whose one data line carries the object with these members, after the lines
\* pre; the object fits the event when every member whose key names a field of the
\* event, in whatever case, is a string or null
ObjBlock(pre, members) ==
    [lines |-> pre \o <<DataLine(Render(members))>>, obj |-> TRUE, members |-> members,
     decodes |-> IF \A i \in 1..Len(members) :
                        FieldOf(members[i].key) # ""
                            => (members[i].t = "str" \/ members[i].text = JsonNull)
                 THEN "ok" ELSE "type"]

\* a block given by its lines alone, its payload (if any) JSON that fits the event
RawBlock(lines) == [lines |-> lines, obj |-> FALSE, members |-> <<>>, decodes |-> "ok"]

\* a block given by its lines alone, its payload no JSON (why = "syntax") or JSON that
\* does not fit the event (why = "type")
BadBlock(lines, why) == [lines |-> lines, obj |-> FALSE, members |-> <<>>, decodes |-> why]

RECURSIVE BlockBytes(_, _)
\* the lines of a block, each followed by the line terminator eol
BlockBytes(lines, eol) ==
    IF Len(lines) = 0 THEN <<>>
    ELSE LineBytes(lines[1]) \o eol \o BlockBytes(Tail(lines), eol)

RECURSIVE WireFrom(_, _, _, _)
\* the bytes of blocks i.. ; every block but the last ends with a blank line, the
\* last one according to term: "blank" (blank line), "newline" (its last line is
\* terminated, no blank line follows) or "none" (the stream ends inside its last line)
WireFrom(blocks, i, eol, term) ==
    IF i > Len(blocks) THEN <<>>
    ELSE LET bb == BlockBytes(blocks[i].lines, eol)
         IN IF i < Len(blocks) THEN bb \o eol \o WireFrom(blocks, i + 1, eol, term)
            ELSE IF term = "blank" THEN bb \o eol
            ELSE IF term = "newline" THEN bb
            ELSE Take(bb, Len(bb) - Len(eol))

\* endErr is what a read of the body returns once the bytes are used up
\* ends are the offsets on the wire at which the server has written a whole block;
\* flush says how the bytes reach the client: in pieces of any size ("bytes")
Stream(blocks, eol, term, endErr) ==
    [blocks |-> blocks, eol |-> eol, term |-> term, endErr |-> endErr, flush |-> "bytes",
     wire |-> WireFrom(blocks, 1, eol, term),
     ends |-> {Len(WireFrom(blocks, 1, eol, term)) - Len(WireFrom(blocks, i + 1, eol, term)) :
                    i \in 1..Len(blocks)}]

\* the stream as a server sends it that writes and flushes one whole block at a time,
\* each reaching the client in one piece
BlockWise(stream) == [stream EXCEPT !.flush = "blocks"]

LF == <<"\n">>

CRLF == <<"\r", "\n">>

TypeInit == <<"i", "n", "i", "t">>

TypeComplete == <<"c", "o", "m", "p", "l", "e", "t", "e">>

KeyData == <<"d", "a", "t", "a">>

ValX == <<"x">>

ValY == <<"y">>

ValRag == <<"r", "a", "g">>

\* the end-to-end stream: an init event carrying a request id, then a complete event
StreamInitComplete ==
    Stream(<<ObjBlock(<<EventLine(TypeInit)>>, <<RawMember(KeyData, <<"{", "\"", "r", "e", "q", "u", "e", "s", "t", "_", "i", "d", "\"", ":", "\"", "r", "1", "\"", "}">>)>>),
             ObjBlock(<<EventLine(TypeComplete)>>, <<>>)>>, LF, "blank", "EOF")

\* event: lines that override, repeat, are empty or are absent
StreamOverride ==
    Stream(<<ObjBlock(<<EventLine(ValX)>>, <<StrMember(KeyType, ValY), StrMember(KeySource, ValRag)>>),
             ObjBlock(<<>>, <<StrMember(KeyStepType, ValX), StrMember(KeyType, ValY)>>),
             ObjBlock(<<EventLine(<<>>)>>, <<StrMember(KeyStepName, <<"n">>), StrMember(KeyType, ValX)>>),
             ObjBlock(<<EventLine(ValX), EventLine(ValY)>>, <<StrMember(KeyType, <<"z">>)>>)>>,
           LF, "blank", "EOF")

\* payloads that are no JSON, with and without an event: line
StreamMalformed ==
    Stream(<<BadBlock(<<EventLine(ValX), DataLine(<<"{", "o", "o", "p", "s">>)>>, "syntax"),
             BadBlock(<<DataLine(<<"n", "o", "t", " ", "j", "s", "o", "n">>)>>, "syntax"),
             BadBlock(<<DataLine(<<"{", "\"", "t", "y", "p", "e", "\"", ":", "\"", "y", "\"">>), DataLine(<<",", "}">>)>>, "syntax")>>, LF, "blank", "EOF")

\* payloads that are JSON but do not fit the event's fields
StreamMistyped ==
    Stream(<<ObjBlock(<<>>, <<StrMember(KeyType, ValY), RawMember(KeySource, <<"5">>)>>),
             ObjBlock(<<EventLine(ValX)>>, <<RawMember(KeyStepType, <<"t", "r", "u", "e">>), StrMember(KeyStepName, <<"n">>)>>),
             BadBlock(<<DataLine(<<"[", "\"", "t", "y", "p", "e", "\"", "]">>)>>, "type"),
             RawBlock(<<DataLine(<<"n", "u", "l", "l">>)>>)>>, LF, "blank", "EOF")

\* one payload spread over several data: lines
StreamMultiLine ==
    Stream(<<RawBlock(<<DataLine(<<"{", "\"", "t", "y", "p", "e", "\"", ":">>), DataLine(<<"\"", "m", "\"", "}">>)>>),
             RawBlock(<<EventLine(ValX), DataLine(<<"{">>), DataLine(<<>>), DataLine(<<"}">>)>>),
             RawBlock(<<DataLine(<<"{", "\"", "s", "o", "u", "r", "c", "e", "\"", ":", "\"", "s", "\"", ",">>), EventLine(ValY), DataLine(<<" ", "\"", "t", "y", "p", "e", "\"", ":", "\"", "t", "\"", "}">>)>>)>>, LF, "blank", "EOF")

\* the last block is not closed by a blank line
StreamUnterminated ==
    Stream(<<ObjBlock(<<>>, <<StrMember(KeyType, ValX)>>),
             ObjBlock(<<EventLine(ValY)>>, <<StrMember(KeySource, ValRag)>>)>>, LF, "newline", "EOF")

\* the stream ends inside the last data line
StreamCutShort ==
    Stream(<<ObjBlock(<<>>, <<StrMember(KeyType, ValX)>>),
             ObjBlock(<<EventLine(ValY)>>, <<StrMember(KeySource, ValRag)>>)>>, LF, "none", "EOF")

\* comments, other fields, blank lines and blocks without data
StreamSparse ==
    Stream(<<RawBlock(<<OtherLine(<<":", " ", "k", "e", "e", "p", "-", "a", "l", "i", "v", "e">>)>>),
             RawBlock(<<>>),
             ObjBlock(<<OtherLine(<<"i", "d", ":", " ", "7">>)>>, <<StrMember(KeyType, ValX)>>),
             RawBlock(<<EventLine(ValY)>>),
             ObjBlock(<<OtherLine(<<"d", "a", "t", "a", ":", "{", "\"", "t", "y", "p", "e", "\"", ":", "\"", "w", "\"", "}">>)>>, <<StrMember(KeySource, ValRag)>>),
             RawBlock(<<OtherLine(<<"r", "e", "t", "r", "y", ":", " ", "5">>)>>)>>, LF, "blank", "EOF")

\* lines terminated by CR LF, one of them filling a 16-byte buffer up to its CR
StreamCRLF ==
    Stream(<<RawBlock(<<EventLine(ValX), DataLine(<<"{", "\"", "a", "\"", ":", "1", "2", "3", "}">>)>>),
             ObjBlock(<<>>, <<StrMember(KeyType, ValY)>>)>>, CRLF, "blank", "EOF")

\* the connection breaks instead of ending
StreamBroken ==
    Stream(<<ObjBlock(<<>>, <<StrMember(KeyType, ValX)>>),
             BadBlock(<<DataLine(<<"{", "\"", "t", "y", "p", "e", "\"", ":">>)>>, "syntax")>>, LF, "newline", "ioerr")

\* three events told apart by their types, each sent in one piece
StreamNumbers ==
    BlockWise(Stream(<<ObjBlock(<<>>, <<StrMember(KeyType, <<"1">>)>>),
                       ObjBlock(<<>>, <<StrMember(KeyType, <<"2">>)>>),
                       ObjBlock(<<>>, <<StrMember(KeyType, <<"3">>)>>)>>, LF, "blank", "EOF"))

\* the stream whose first piece to reach the client is its first k bytes
SplitAt(stream, k) == [BlockWise(stream) EXCEPT !.ends = @ \cup {k}]

\* one event, `data: {}`, of which the server's write reaches the client in two pieces,
\* the first ending inside the data line, after `data: {`
StreamSplit ==
    SplitAt(Stream(<<ObjBlock(<<>>, <<>>)>>, LF, "blank", "EOF"), Len(DataPrefix) + 1)

\* one event of two data lines, of which the first reaches the client in a piece of its
\* own
StreamSplitBlock ==
    SplitAt(Stream(<<RawBlock(<<DataLine(<<"{">>), DataLine(<<"}">>)>>)>>, LF, "blank", "EOF"),
            Len(DataPrefix) + 2)

\* one event whose data line fills a 16-byte buffer and is cut off there by the end of
\* the stream
StreamFullTail ==
    Stream(<<RawBlock(<<DataLine(<<"{", "\"", "a", "\"", ":", "\"", "b", "c", "\"", "}">>)>>)>>,
           LF, "none", "EOF")

\* a string value written with the escapes \u0041 and \b, a key written in another
\* case and a null
StreamEscaped ==
    Stream(<<ObjBlock(<<>>, <<EscMember(KeyType,
                                        <<"\\", "u", "0", "0", "4", "1", "\\", "b">>,
                                        <<"A", Byte(8)>>),
                              StrMember(<<"S", "o", "u", "r", "c", "e">>, ValRag),
                              RawMember(KeyStepName, JsonNull)>>)>>, LF, "blank", "EOF")

\* one data line, `data: 1  data: 7`, that reaches the client in two pieces of 9 bytes,
\* the second of which read alone is a whole block, and a blank line that comes in a
\* piece of its own
StreamPadded ==
    SplitAt(Stream(<<BadBlock(<<DataLine(<<"1", " ", " ", "d", "a", "t", "a", ":", " ", "7">>)>>,
                              "syntax"),
                     RawBlock(<<>>)>>, LF, "blank", "EOF"),
            9)

\* an empty body
StreamEmpty == Stream(<<RawBlock(<<>>)>>, LF, "newline", "EOF")

\* the streams that arrive in pieces of lines or of blocks
SplitStreams == {StreamSplit, StreamSplitBlock, StreamPadded}

Streams ==
    <<StreamInitComplete, StreamOverride, StreamMalformed, StreamMistyped, StreamMultiLine,
      StreamUnterminated, StreamCutShort, StreamSparse, StreamCRLF, StreamBroken, StreamNumbers,
      StreamSplit, StreamSplitBlock, StreamPadded,
      StreamFullTail, StreamEscaped,
      StreamEmpty>>

(***************************************************************************)
(* State                                                                   *)
(***************************************************************************)
VARIABLES
    phase,      \* "new" before AnalyzeDataStream, then "open" | "failed" | "panicked"
    client,     \* "zero" (a zero-value RawClient) | "configured" | "badURL" (configured,
                \* with a baseURL that url.Parse refuses)
    req,        \* the request passed to AnalyzeDataStream
    resp,       \* the HTTP response the server gives to the request
    netCalls,   \* the HTTP requests issued so far
    startRes,   \* what AnalyzeDataStream returned
    body,       \* the response body: "none" | "open" | "closed"
    sid,        \* the stream the body serves, an index of Streams
    cfg,        \* the call options: [initialBufferSize, readTimeout]
    pos,        \* the bytes of the body consumed so far
    reader,     \* s.reader: [nil, b] with b the bufio.Reader
    pc,         \* the caller: "idle" | "fill" (in Body.Read) | "select" (in timeoutReader.Read)
                \* | "search" | "line" | "append" | "slide" (between two accesses to the
                \* buffer of the bufio.Reader, in a session with a read timeout)
    loc,        \* the locals of the ReadEvent call in progress: [line, dataLines, eventType,
                \* from, to, rerr, isPrefix]
    results,    \* what the ReadEvent calls returned, in order
    linesRead,  \* the lines readLine returned, in order
    callErr,    \* the first error but io.EOF a read of the body gave to the ReadEvent call
                \* in progress, or to the last one
    gate,       \* the number of tokens in timeoutReader.readMutex
    timer,      \* the time elapsed on the context of the Read call in progress
    cur,        \* the goroutine of the Read call in progress
    stale,      \* the goroutines of Read calls that returned a timeout, still running
    reads,      \* the Read calls of the timeoutReader: how many timed out, what the last returned
    callers,    \* the callers that call Read on the timeoutReader themselves, each with
                \* its buffer p
    closes,     \* the Close calls: how many, and the receiver and the return of the last
    cancelReq,  \* the request passed to the last CancelAnalyze call
    cancelRes   \* the CancelAnalyze calls: how many, and what the last returned

startVars == <<phase, client, req, resp, netCalls, startRes, body>>

streamVars == <<sid, cfg, pos, reader, pc, loc, results, linesRead, callErr>>

timeoutVars == <<gate, timer, cur, stale, reads, callers>>

sideVars == <<closes, cancelReq, cancelRes>>

vars == <<phase, client, req, resp, netCalls, startRes, body, sid, cfg, pos, reader, pc, loc,
          results, linesRead, callErr, gate, timer, cur, stale, reads, callers, closes,
          cancelReq, cancelRes>>

(***************************************************************************)
(* Bounds                                                                  *)
(***************************************************************************)
\* the longest Question tried
MaxQuestionLen == 2

\* the ReadEvent calls made on one session
MaxCalls == 6

\* the ReadEvent calls made on one session that has a read timeout
MaxTimedCalls == 3

\* the ReadEvent calls made on one session that has a read timeout and whose stream
\* arrives in pieces of lines or of blocks
MaxSplitCalls == 2

\* a read of the body returns at most this many bytes, or all there is room for
MaxChunk == 2

\* the Close calls made on one session
MaxCloses == 2

\* the longest RequestID tried
MaxRequestIDLen == 2

\* the CancelAnalyze calls made on one client
MaxCancels == 3

\* the inactivity timeout, in ticks of the clock
TimeoutT == 2

\* the callers that call Read on one timeoutReader
NCallers == 2

\* the Read calls they make, all together
MaxReads == 2

\* the length of the buffer each of them reads into
PLen == 32

(***************************************************************************)
(* RawClient.AnalyzeDataStream                                             *)
(***************************************************************************)
\* the arguments of AnalyzeDataStream: req (nil, or its Question; marshals says that
\* json.Marshal(req) returns no error) and ctx ("nil" for a nil context)
NilReq == [nil |-> TRUE, Question |-> <<>>, marshals |-> TRUE, ctx |-> "set"]

\* "xc2", "xa0" are the two bytes of U+00A0, the no-break space
QuestionBytes == {" ", "\t", "q", "xc2", "xa0"}

Questions == UNION {[1..n -> QuestionBytes] : n \in 0..MaxQuestionLen}

\* the longest Questions come with a request that marshals and a context only
Requests ==
    {[NilReq EXCEPT !.ctx = cx] : cx \in {"nil", "set"}}
        \cup {[nil |-> FALSE, Question |-> qs, marshals |-> TRUE, ctx |-> "set"] :
                  qs \in Questions}
        \cup {[nil |-> FALSE, Question |-> qs, marshals |-> ms, ctx |-> cx] :
                  qs \in {q \in Questions : Len(q) < MaxQuestionLen},
                  ms \in BOOLEAN, cx \in {"nil", "set"}}

\* strings.Contains
Contains(s, sub) ==
    \E i \in 1..(Len(s) - Len(sub) + 1) : SubSeq(s, i, i + Len(sub) - 1) = sub

MimeEventStream == <<"t", "e", "x", "t", "/", "e", "v", "e", "n", "t", "-", "s", "t", "r", "e", "a", "m">>

MimePlain == <<"t", "e", "x", "t", "/", "p", "l", "a", "i", "n">>

MimeEventStreamCharset == <<"t", "e", "x", "t", "/", "e", "v", "e", "n", "t", "-", "s", "t", "r", "e", "a", "m", ";", " ", "c", "h", "a", "r", "s", "e", "t", "=", "u", "t", "f", "-", "8">>

MimeJSON == <<"a", "p", "p", "l", "i", "c", "a", "t", "i", "o", "n", "/", "j", "s", "o", "n">>

StatusOK == 200

StatusMultipleChoices == 300

\* streamClient.Do returns an error: there is no response
NoResp == [status |-> 0, contentType |-> <<>>]

Responses ==
    {[status |-> st, contentType |-> ct] :
        st \in {StatusOK - 1, StatusOK, StatusMultipleChoices - 1, StatusMultipleChoices, 404},
        ct \in {MimeEventStream, MimePlain, MimeEventStreamCharset, MimeJSON, <<>>}}

NoStartRes == [session |-> FALSE, err |-> "none", status |-> 0, data |-> <<>>]

\* the whole body as io.ReadAll returns it
Drained(i) == Streams[i].wire

\* the validation that opens AnalyzeDataStream without trimming the Question
ValidateRequestNoTrim(r) ==
    IF r.nil THEN "ErrNilRequest"
    ELSE IF r.Question = <<>> THEN "question cannot be empty"
    ELSE "nil"

\* the validation that opens AnalyzeDataStream: the error it returns, "nil" for none
ValidateRequest(r) ==
    IF r.nil THEN "ErrNilRequest"
    ELSE IF TrimSpace(r.Question) = <<>> THEN "question cannot be empty"
    ELSE "nil"

\* a status code that only counts as success from 400 down
IsHTTPErrorFrom400(status) == status >= 400

\* resp.StatusCode < http.StatusOK || resp.StatusCode >= http.StatusMultipleChoices
IsHTTPError(status) == status < StatusOK \/ status >= StatusMultipleChoices

\* a content type check that accepts event streams only
IsEventStreamOnly(contentType) == Contains(contentType, MimeEventStream)

\* the content types AnalyzeDataStream takes for a stream
IsStreamContentType(contentType) ==
    Contains(contentType, MimeEventStream) \/ Contains(contentType, MimePlain)

\* what AnalyzeDataStream does with request r on client cl when the server answers rs
\* with body stream i, or when the request gets no response (rs = NoResp):
\* [phase, calls, body, res].  json.Marshal and http.NewRequestWithContext (nil ctx, or
\* a URL that does not parse) fail before c.httpClient is read, where the zero-value
\* client panics
StartOutcome(cl, r, rs, i) ==
    IF ValidateRequest(r) # "nil"
    THEN [phase |-> "failed", calls |-> 0, body |-> "none",
          res |-> [NoStartRes EXCEPT !.err = ValidateRequest(r)]]
    ELSE IF ~r.marshals
    THEN [phase |-> "failed", calls |-> 0, body |-> "none",
          res |-> [NoStartRes EXCEPT !.err = "marshal request body"]]
    ELSE IF r.ctx = "nil" \/ cl = "badURL"
    THEN [phase |-> "failed", calls |-> 0, body |-> "none",
          res |-> [NoStartRes EXCEPT !.err = "create request"]]
    ELSE IF cl = "zero"
    THEN [phase |-> "panicked", calls |-> 0, body |-> "none", res |-> NoStartRes]
    ELSE IF rs = NoResp
    THEN [phase |-> "failed", calls |-> 1, body |-> "none",
          res |-> [NoStartRes EXCEPT !.err = "execute request"]]
    ELSE IF IsHTTPError(rs.status)
    THEN [phase |-> "failed", calls |-> 1, body |-> "closed",
          res |-> [session |-> FALSE, err |-> "HTTPError", status |-> rs.status, data |-> Drained(i)]]
    ELSE IF ~IsStreamContentType(rs.contentType)
    THEN [phase |-> "failed", calls |-> 1, body |-> "closed",
          res |-> [session |-> FALSE, err |-> "unexpected content type", status |-> 0,
                   data |-> rs.contentType \o Drained(i)]]
    ELSE [phase |-> "open", calls |-> 1, body |-> "open",
          res |-> [session |-> TRUE, err |-> "nil", status |-> rs.status, data |-> <<>>]]

AnalyzeDataStream ==
    /\ phase = "new"
    /\ LET o == StartOutcome(client, req, resp, sid)
       IN /\ phase' = o.phase
          /\ netCalls' = netCalls + o.calls
          /\ body' = o.body
          /\ startRes' = o.res
    /\ UNCHANGED <<client, req, resp>>
    /\ UNCHANGED streamVars
    /\ UNCHANGED timeoutVars
    /\ UNCHANGED sideVars

(***************************************************************************)
(* DataAnalysisStream.Close                                                *)
(***************************************************************************)
NoCloses == [count |-> 0, released |-> FALSE,
             last |-> [recv |-> "none", before |-> "none", ret |-> "none"]]

\* s.Body.Close() on the response body: closing a closed body leaves it closed
BodyClose(b) == "closed"

\* Close that calls s.Body.Close() whatever the receiver
CloseNoNilCheck(recv, b) ==
    IF recv = "nil" \/ b = "none"
    THEN [ret |-> "panic", body |-> b]
    ELSE [ret |-> "nil", body |-> BodyClose(b)]

\* Close on receiver recv ("nil" | "session") whose Body is b: what it returns and
\* what it leaves the body as
CloseOutcome(recv, b) ==
    IF recv = "nil" \/ b = "none"
    THEN [ret |-> "nil", body |-> b]
    ELSE [ret |-> "nil", body |-> BodyClose(b)]

\* the caller calls Close on what AnalyzeDataStream returned to it (nil before the
\* call and after a failed one), or on a DataAnalysisStream that has no Body (bare)
Close ==
    /\ phase # "panicked"
    /\ closes.count < MaxCloses
    /\ \E bare \in BOOLEAN :
          LET recv == IF bare \/ startRes.session THEN "session" ELSE "nil"
              b == IF bare THEN "none" ELSE body
              o == CloseOutcome(recv, b)
          IN /\ closes' = [count |-> closes.count + 1,
                           released |-> closes.released \/ (recv = "session" /\ b # "none"),
                           last |-> [recv |-> recv, before |-> b, ret |-> o.ret]]
             /\ body' = IF bare THEN body ELSE o.body
    /\ UNCHANGED <<phase, client, req, resp, netCalls, startRes, cancelReq, cancelRes>>
    /\ UNCHANGED streamVars
    /\ UNCHANGED timeoutVars

(***************************************************************************)
(* RawClient.CancelAnalyze                                                 *)
(***************************************************************************)
NilCancelReq == [nil |-> TRUE, RequestID |-> <<>>]

RequestIDBytes == {" ", "\t", "r", "xc2", "xa0"}

RequestIDs == UNION {[1..n -> RequestIDBytes] : n \in 0..MaxRequestIDLen}

CancelRequests == {NilCancelReq} \cup {[nil |-> FALSE, RequestID |-> id] : id \in RequestIDs}

NoCancelRes == [count |-> 0, last |-> [resp |-> FALSE, err |-> "none", calls |-> 0]]

\* the validation that opens CancelAnalyze without trimming the RequestID
ValidateCancelNoTrim(r) ==
    IF r.nil THEN "ErrNilRequest"
    ELSE IF r.RequestID = <<>> THEN "request_id cannot be empty"
    ELSE "nil"

\* the validation that opens CancelAnalyze: the error it returns, "nil" for none
ValidateCancel(r) ==
    IF r.nil THEN "ErrNilRequest"
    ELSE IF TrimSpace(r.RequestID) = <<>> THEN "request_id cannot be empty"
    ELSE "nil"

\* c.postJSON: one POST to the cancel path; the server's answer is the decoded
\* envelope ("ok") or an error
PostJSON(answer) ==
    [resp |-> answer = "ok", err |-> IF answer = "ok" THEN "nil" ELSE "post failed", calls |-> 1]

\* what CancelAnalyze returns for request r when the server answers: [resp, err, calls]
CancelOutcome(r, answer) ==
    IF ValidateCancel(r) # "nil"
    THEN [resp |-> FALSE, err |-> ValidateCancel(r), calls |-> 0]
    ELSE PostJSON(answer)

\* a CancelAnalyze call; a request that passes the validation is sent by a
\* configured client only
CancelAnalyze ==
    /\ cancelRes.count < MaxCancels
    /\ \E r \in CancelRequests : \E answer \in {"ok", "failed"} :
          /\ ValidateCancel(r) # "nil" \/ client = "configured"
          /\ cancelReq' = r
          /\ cancelRes' = [count |-> cancelRes.count + 1, last |-> CancelOutcome(r, answer)]
          /\ netCalls' = netCalls + CancelOutcome(r, answer).calls
    /\ UNCHANGED <<phase, client, req, resp, startRes, body, closes>>
    /\ UNCHANGED streamVars
    /\ UNCHANGED timeoutVars

(***************************************************************************)
(* Reading events                                                          *)
(***************************************************************************)
\* the goroutine of one Read call: st is "reading" (in r.reader.Read), "got" (the body's
\* read has returned data and err into its local buf), "sent" (copied to p and sent on
\* resultCh); p is the buffer from offset off on, cap bytes long; waited is the
\* time its Read call has spent in the select
\* caller is who called Read: 0 for the bufio.Reader of the session, k for caller k;
\* done is the value of waited when the result was sent, -1 before; copied is the
\* number of bytes that its copy(p, buf[:n]) has written; ch is the number of results
\* that the resultCh of its Read call holds
NoGoroutine == [st |-> "none", off |-> 0, cap |-> 0, data |-> <<>>, err |-> "nil", waited |-> 0,
                caller |-> 0, done |-> -1, copied |-> 0, ch |-> 0]

\* no Read call of the timeoutReader has returned; of the last one that has: what it
\* returned (n, err), how long it waited, when its goroutine had sent its result
\* (done), what the read of the body had given that goroutine (got, gotErr) and
\* what p[:n] held on return (bytes); given counts the bytes the Read calls have reported
\* as read
NoReads == [timeouts |-> 0, given |-> 0,
            last |-> [n |-> 0, err |-> "none", waited |-> 0, done |-> -1, got |-> <<>>,
                      gotErr |-> "nil", bytes |-> <<>>]]

Callers == 1..NCallers

NoCallers ==
    [k \in Callers |-> [pc |-> "idle", calls |-> 0, res |-> [n |-> 0, err |-> "none"], p |-> <<>>]]

\* make(chan struct{}, 1)
GateCap == 1

\* a gate that lets every caller in
CanAcquireAlways(g) == TRUE

\* r.readMutex <- struct{}{} can proceed
CanAcquire(g) == g < GateCap

\* a deferred function that leaves the gate as it is
ReleaseNever(g) == g

\* defer func() { <-r.readMutex }()
Release(g) == g - 1

\* a context that is never done
CtxNeverDone == FALSE

\* <-ctx.Done() can proceed
CtxDone == timer = TimeoutT

\* err, unless an error was noted for the ReadEvent call before
NoteErr(err) == IF callErr = "nil" /\ err \notin {"nil", "EOF"} THEN err ELSE callErr

\* context.WithTimeout(context.Background(), r.timeout): a context of its own
WithTimeout(elapsed) == 0

\* the locals of a ReadEvent call that has read nothing yet: line is the local `line` of
\* readLine; from and to bound the slice b.buf[from:to] that ReadSlice or ReadLine has
\* returned and that is still to be looked at, rerr is the error ReadSlice returned
\* with it, isPrefix what ReadLine returned with it
EmptyLoc == [line |-> <<>>, dataLines |-> <<>>, eventType |-> <<>>, from |-> 0, to |-> 0,
             rerr |-> "nil", isPrefix |-> FALSE]

NilReader == [nil |-> TRUE, timed |-> FALSE, b |-> NewReaderSize(0)]

\* readLine's lazy construction of s.reader
OpenReader ==
    IF reader.nil
    THEN [nil |-> FALSE, timed |-> cfg.readTimeout > 0,
          b |-> NewReaderSize(IF cfg.initialBufferSize = 0 THEN DefaultBufferSize
                                ELSE cfg.initialBufferSize)]
    ELSE reader

Wire == Streams[sid].wire

\* the sizes one read of the body into a buffer of room bytes can have, left bytes
\* of the stream not being read yet
ReadSizes(room, left) ==
    IF Streams[sid].flush = "blocks"
    THEN {n \in 1..Min(room, left) :
            \/ pos + n \in Streams[sid].ends /\ \A m \in 1..(n - 1) : pos + m \notin Streams[sid].ends
            \/ n = room /\ \A m \in 1..n : pos + m \notin Streams[sid].ends}
    ELSE {n \in 1..Min(room, left) : n <= MaxChunk \/ n = Min(room, left)}

\* what one read of the body into a buffer of room bytes can return: some of the
\* bytes that are left, the last of them alone or with the final error, or the final
\* error alone
BodyReads(room) ==
    LET left == Len(Wire) - pos
    IN {[n |-> n, data |-> SubSeq(Wire, pos + 1, pos + n), err |-> "nil"] :
            n \in ReadSizes(room, left)}
       \cup {[n |-> left, data |-> SubSeq(Wire, pos + 1, pos + left), err |-> Streams[sid].endErr] :
                n \in {m \in {left} : m <= room}}

\* the ReadEvent call of a session without a read timeout goes on from reader rd with
\* locals l, up to its next read of the body or its return: no goroutine is started for
\* such a session, nothing else reads or writes what the call reads and writes
Advance(rd, l) ==
    LET out == ReadEvent([b |-> rd.b, line |-> l.line, dataLines |-> l.dataLines,
                          eventType |-> l.eventType, seen |-> <<>>])
    IN /\ reader' = [rd EXCEPT !.b = out.c.b]
       /\ linesRead' = linesRead \o out.c.seen
       /\ IF out.st = "fill"
          THEN /\ loc' = [EmptyLoc EXCEPT !.line = out.c.line, !.dataLines = out.c.dataLines,
                                          !.eventType = out.c.eventType]
               /\ results' = results
               /\ pc' = "fill"
          ELSE /\ pc' = "idle"
               /\ loc' = EmptyLoc
               /\ results' = Append(results, out.res)

\* the ReadEvent calls that the caller makes on the session
CallsMade ==
    IF cfg.readTimeout <= 0 THEN MaxCalls
    ELSE IF Streams[sid] \in SplitStreams THEN MaxSplitCalls
    ELSE MaxTimedCalls

\* the caller calls ReadEvent: with a read timeout the call comes to the first search of
\* ReadSlice, without one it runs on to its first read of the body
CallReadEvent ==
    /\ phase = "open"
    /\ pc = "idle"
    /\ Len(results) < CallsMade
    /\ IF OpenReader.timed
       THEN /\ reader' = OpenReader
            /\ loc' = EmptyLoc
            /\ pc' = "search"
            /\ UNCHANGED <<results, linesRead>>
       ELSE Advance(OpenReader, EmptyLoc)
    /\ callErr' = "nil"
    /\ UNCHANGED <<sid, cfg, pos, stale, reads, callers, gate, timer, cur>>
    /\ UNCHANGED startVars
    /\ UNCHANGED sideVars

\* s.Body.Read(p) returns to fill(), the body not being wrapped
BodyRead ==
    /\ pc = "fill"
    /\ \E o \in BodyReads(reader.b.size - reader.b.w) :
          /\ pos' = pos + o.n
          /\ Advance([reader EXCEPT !.b = FillReturn([reader.b EXCEPT
                          !.buf = CopyAt(reader.b.buf, reader.b.w, o.data)], o.n, o.err)], loc)
          /\ callErr' = NoteErr(o.err)
    /\ UNCHANGED <<sid, cfg, stale, reads, callers, gate, timer, cur>>
    /\ UNCHANGED startVars
    /\ UNCHANGED sideVars

(***************************************************************************)
(* ReadEvent on a session with a read timeout.  The goroutines that Read   *)
(* calls have left behind write to the buffer of the bufio.Reader while    *)
(* the call reads it, so the call is taken one access to the buffer at a   *)
(* time: pc is "search" before the search of ReadSlice, "line" before      *)
(* ReadLine looks at the end of the slice, "append" before readLine copies *)
(* the slice, "slide" before fill() moves the unread bytes, "select" in    *)
(* timeoutReader.Read.                                                     *)
(***************************************************************************)
\* readLine has been given rl = [line, isPrefix, err] by s.reader.ReadLine(), the reader
\* being b and the locals c: it goes round its loop again, or returns to ReadEvent,
\* which returns or goes on to the next readLine
Deliver(b, c, rl) ==
    LET o == readLineNext(c.line, rl)
        e == ReadEventNext([b |-> b, line |-> <<>>, dataLines |-> c.dataLines,
                            eventType |-> c.eventType, seen |-> <<>>], o.line, o.err)
    IN /\ reader' = [reader EXCEPT !.b = b]
       /\ IF o.st = "more"
          THEN /\ loc' = [EmptyLoc EXCEPT !.line = o.acc, !.dataLines = c.dataLines,
                                          !.eventType = c.eventType]
               /\ pc' = "search"
               /\ UNCHANGED <<results, linesRead>>
          ELSE /\ linesRead' = linesRead \o e.c.seen
               /\ IF e.st = "more"
                  THEN /\ loc' = [EmptyLoc EXCEPT !.dataLines = e.c.dataLines,
                                                  !.eventType = e.c.eventType]
                       /\ pc' = "search"
                       /\ results' = results
                  ELSE /\ loc' = EmptyLoc
                       /\ pc' = "idle"
                       /\ results' = Append(results, e.res)

\* one pass of the loop of ReadSlice: bytes.IndexByte(b.buf[b.r+s:b.w], '\n') reads the
\* buffer; ReadSlice returns a slice of the buffer, returns the pending error with no
\* bytes, which ends readLine, or goes on to fill()
Search ==
    /\ pc = "search"
    /\ LET rs == ReadSlice(reader.b)
       IN IF rs.fill
          THEN /\ reader' = [reader EXCEPT !.b.s = reader.b.w - reader.b.r]
               /\ pc' = "slide"
               /\ UNCHANGED <<loc, results, linesRead>>
          ELSE IF rs.line = <<>>
          THEN Deliver(rs.b, loc, ReadLine(rs))
          ELSE /\ reader' = [reader EXCEPT !.b = rs.b]
               /\ loc' = [loc EXCEPT !.from = reader.b.r, !.to = reader.b.r + Len(rs.line),
                                     !.rerr = rs.err]
               /\ pc' = "line"
               /\ UNCHANGED <<results, linesRead>>
    /\ UNCHANGED <<sid, cfg, pos, callErr>>
    /\ UNCHANGED timeoutVars
    /\ UNCHANGED startVars
    /\ UNCHANGED sideVars

\* the slice b.buf[from:to] that ReadSlice has returned, as the buffer holds it now
Slice == SubSeq(reader.b.buf, loc.from + 1, loc.to)

\* ReadLine on the slice that ReadSlice has returned: it reads the last bytes of the
\* slice and cuts the end of the line off
LastByte ==
    /\ pc = "line"
    /\ LET rl == ReadLine([fill |-> FALSE, b |-> reader.b, line |-> Slice, err |-> loc.rerr])
       IN /\ reader' = [reader EXCEPT !.b = rl.b]
          /\ loc' = [loc EXCEPT !.to = loc.from + Len(rl.line), !.rerr = rl.err,
                                !.isPrefix = rl.isPrefix]
    /\ pc' = "append"
    /\ UNCHANGED <<sid, cfg, pos, results, linesRead, callErr>>
    /\ UNCHANGED timeoutVars
    /\ UNCHANGED startVars
    /\ UNCHANGED sideVars

\* line = append(line, part...) in readLine copies the slice that ReadLine has returned
\* out of the buffer
AppendPart ==
    /\ pc = "append"
    /\ Deliver(reader.b, loc, [line |-> Slice, isPrefix |-> loc.isPrefix, err |-> loc.rerr])
    /\ UNCHANGED <<sid, cfg, pos, callErr>>
    /\ UNCHANGED timeoutVars
    /\ UNCHANGED startVars
    /\ UNCHANGED sideVars

\* fill() slides the unread bytes to the start of the buffer and calls
\* b.rd.Read(b.buf[b.w:]): the timeoutReader takes the gate, creates the context and the
\* result channel, starts the goroutine and comes to the select
Slide ==
    /\ pc = "slide"
    /\ CanAcquire(gate)
    /\ gate' = gate + 1
    /\ reader' = [reader EXCEPT !.b = FillSlide(@)]
    /\ timer' = WithTimeout(timer)
    /\ cur' = [NoGoroutine EXCEPT !.st = "reading", !.off = FillSlide(reader.b).w,
                                   !.cap = reader.b.size - FillSlide(reader.b).w]
    /\ pc' = "select"
    /\ UNCHANGED <<sid, cfg, pos, loc, results, linesRead, callErr, stale, reads, callers>>
    /\ UNCHANGED startVars
    /\ UNCHANGED sideVars

(***************************************************************************)
(* timeoutReader.Read: the caller waits in the select for its goroutine or *)
(* for the context; a goroutine whose Read call has timed out runs on.     *)
(***************************************************************************)
\* goroutine 0 is the one of the Read call in progress, i > 0 the i-th left behind
Goroutine(i) == IF i = 0 THEN cur ELSE stale[i]

\* s without its i-th element
Without(s, i) == SubSeq(s, 1, i - 1) \o SubSeq(s, i + 1, Len(s))

\* the buffer that goroutine g was given a part of as p
BufferOf(g) == IF g.caller = 0 THEN reader.b.buf ELSE callers[g.caller].p

RECURSIVE CallsUpTo(_)
\* the Read calls that callers 1..k have made or are making
CallsUpTo(k) ==
    IF k = 0 THEN 0
    ELSE CallsUpTo(k - 1) + callers[k].calls + (IF callers[k].pc = "idle" THEN 0 ELSE 1)

\* a Read call is in the select
InSelect == pc = "select" \/ \E k \in Callers : callers[k].pc = "select"

\* caller k has called Read
HasCalled(k) == callers[k].calls > 0 \/ callers[k].pc # "idle"

\* caller k calls Read(p) and comes to the send on r.readMutex; the callers are
\* numbered in the order of their first calls
ReadCall(k) ==
    /\ callers[k].pc = "idle"
    /\ IF k = 1 THEN TRUE ELSE HasCalled(k - 1)
    /\ CallsUpTo(NCallers) < MaxReads
    /\ callers' = [callers EXCEPT ![k].pc = "gate"]
    /\ UNCHANGED <<gate, timer, cur, stale, reads>>
    /\ UNCHANGED streamVars
    /\ UNCHANGED startVars
    /\ UNCHANGED sideVars

\* the send on r.readMutex proceeds for caller k: without a timeout it calls
\* r.reader.Read(p) itself; with one it creates the context and the result channel,
\* starts the goroutine and comes to the select
Admit(k) ==
    /\ callers[k].pc = "gate"
    /\ CanAcquire(gate)
    /\ gate' = gate + 1
    /\ IF cfg.readTimeout <= 0
       THEN /\ callers' = [callers EXCEPT ![k].pc = "direct"]
            /\ UNCHANGED <<timer, cur>>
       ELSE /\ timer' = WithTimeout(timer)
            /\ cur' = [NoGoroutine EXCEPT !.st = "reading", !.cap = PLen, !.caller = k]
            /\ callers' = [callers EXCEPT ![k].pc = "select"]
    /\ UNCHANGED <<stale, reads>>
    /\ UNCHANGED streamVars
    /\ UNCHANGED startVars
    /\ UNCHANGED sideVars

\* return r.reader.Read(p) for caller k of a timeoutReader without a timeout
DirectRead(k) ==
    /\ callers[k].pc = "direct"
    /\ \E o \in BodyReads(PLen) :
          /\ pos' = pos + o.n
          /\ callers' = [callers EXCEPT ![k] =
                            [pc |-> "idle", calls |-> @.calls + 1, res |-> [n |-> o.n, err |-> o.err],
                             p |-> CopyAt(@.p, 0, o.data)]]
          /\ reads' = [reads EXCEPT !.given = @ + o.n, !.last =
                          [n |-> o.n, err |-> o.err, waited |-> 0, done |-> 0, got |-> o.data,
                           gotErr |-> o.err, bytes |-> o.data]]
    /\ gate' = Release(gate)
    /\ UNCHANGED <<sid, cfg, reader, pc, loc, results, linesRead, callErr, timer, cur, stale>>
    /\ UNCHANGED startVars
    /\ UNCHANGED sideVars

\* n, err := r.reader.Read(buf) returns in goroutine i
GoRead(i) ==
    /\ Goroutine(i).st = "reading"
    /\ \E o \in BodyReads(Goroutine(i).cap) :
          /\ pos' = pos + o.n
          /\ IF i = 0
             THEN /\ cur' = [cur EXCEPT !.st = "got", !.data = o.data, !.err = o.err]
                  /\ stale' = stale
             ELSE /\ stale' = [stale EXCEPT ![i] = [@ EXCEPT !.st = "got", !.data = o.data,
                                                              !.err = o.err]]
                  /\ cur' = cur
    /\ UNCHANGED <<sid, cfg, reader, pc, loc, results, linesRead, callErr, gate, timer,
                   reads, callers>>
    /\ UNCHANGED startVars
    /\ UNCHANGED sideVars

\* make(chan result, 1)
ResultChCap == 1

\* a send on a result channel without a buffer: it waits for the receive of the select,
\* which only the Read call in progress makes, and only for its own goroutine
CanSendUnbuffered(i) == i = 0 /\ InSelect

\* resultCh <- result{n, err} can proceed in goroutine i: the channel of its Read call
\* has room
CanSend(i) == Goroutine(i).ch < ResultChCap

\* the byte at index j (from 1) of a buffer of which buf is the part written so far
ByteAt(buf, j) == IF j <= Len(buf) THEN buf[j] ELSE ZeroByte

\* the places of its buffer (from 1) that the copy of goroutine g may yet store to: the
\* stores of a copy overlap (runtime.memmove stores the first and the last 16 bytes of
\* a block of 17 to 32 bytes), so that a byte it has stored may be stored again
MayStore(g) == (g.off + 1)..(g.off + Len(g.data))

\* the Read call that gave goroutine g its p has returned, and the caller may read
\* place x of the buffer: the bufio.Reader of the session reads its unread bytes
\* buf[r:w] and ReadEvent the slice of the buffer it has been given, a caller of Read
\* the bytes p[:n] that its last call has given it
MayRead(g, x) ==
    IF g.caller = 0
    THEN \/ x > reader.b.r /\ x <= reader.b.w
         \/ pc \in {"line", "append"} /\ x > loc.from /\ x <= loc.to
    ELSE callers[g.caller].pc = "idle" /\ x <= callers[g.caller].res.n

\* the bytes that the copy of goroutine i has still to write and is not alone with:
\* another goroutine is about to write another value to the same place, or the caller
\* may read the place and would find another value
Contended(i) ==
    LET g == Goroutine(i)
    IN {j \in (g.copied + 1)..Len(g.data) :
          \/ \E h \in 0..Len(stale) :
                /\ h # i
                /\ Goroutine(h).st = "got"
                /\ Goroutine(h).caller = g.caller
                /\ g.off + j \in MayStore(Goroutine(h))
                /\ Goroutine(h).data[g.off + j - Goroutine(h).off] # g.data[j]
          \/ /\ i > 0
             /\ MayRead(g, g.off + j)
             /\ ByteAt(BufferOf(g), g.off + j) # g.data[j]}

\* where the next store of the copy of goroutine i may start, as a number of bytes of
\* buf[:n] before it: after the bytes stored so far, or before a byte stored earlier,
\* which it stores again; of these only the bytes that have changed since are told apart
Restarts(i) ==
    LET g == Goroutine(i)
    IN {g.copied} \cup {m - 1 : m \in {x \in 1..g.copied :
                                          ByteAt(BufferOf(g), g.off + x) # g.data[x]}}

\* copy(p, buf[:n]) in goroutine i writes on, up to a byte j that it is not alone with,
\* and others run before it writes on: the copy is a run of stores, no atomic step for
\* the other goroutines that write the same bytes and for the caller that reads them
GoCopyPart(i) ==
    /\ Goroutine(i).st = "got"
    /\ \E j \in Contended(i) : \E from \in Restarts(i) :
          LET g == Goroutine(i)
              part == SubSeq(g.data, from + 1, j)
          IN /\ IF g.caller = 0
                THEN /\ reader' = [reader EXCEPT !.b.buf = CopyAt(@, g.off + from, part)]
                     /\ callers' = callers
                ELSE /\ callers' = [callers EXCEPT ![g.caller].p = CopyAt(@, g.off + from, part)]
                     /\ reader' = reader
             /\ IF i = 0
                THEN /\ cur' = [cur EXCEPT !.copied = j]
                     /\ stale' = stale
                ELSE /\ stale' = [stale EXCEPT ![i] = [@ EXCEPT !.copied = j]]
                     /\ cur' = cur
    /\ UNCHANGED <<sid, cfg, pos, pc, loc, results, linesRead, callErr, gate, timer, reads>>
    /\ UNCHANGED startVars
    /\ UNCHANGED sideVars

\* the rest of copy(p, buf[:n]), its last store, and resultCh <- result{n, err} in
\* goroutine i, which then ends; the channel of a Read call that has returned is
\* garbage once its goroutine has ended
GoCopy(i) ==
    /\ Goroutine(i).st = "got"
    /\ CanSend(i)
    /\ \E from \in Restarts(i) :
          IF Goroutine(i).caller = 0
          THEN /\ reader' = [reader EXCEPT !.b.buf =
                                   CopyAt(@, Goroutine(i).off + from,
                                          Drop(Goroutine(i).data, from + 1))]
               /\ callers' = callers
          ELSE /\ callers' = [callers EXCEPT ![Goroutine(i).caller].p =
                                   CopyAt(@, Goroutine(i).off + from,
                                          Drop(Goroutine(i).data, from + 1))]
               /\ reader' = reader
    /\ IF i = 0
       THEN /\ cur' = [cur EXCEPT !.st = "sent", !.done = cur.waited, !.ch = @ + 1]
            /\ stale' = stale
       ELSE /\ stale' = Without(stale, i)
            /\ cur' = cur
    /\ UNCHANGED <<sid, cfg, pos, pc, loc, results, linesRead, callErr, gate, timer, reads>>
    /\ UNCHANGED startVars
    /\ UNCHANGED sideVars

\* Read returns (n, err) and its deferred function releases the gate: fill() in the
\* bufio.Reader of the session counts the n bytes in and notes the error, ReadSlice
\* being about to search again; the caller that called Read itself has its result
Return(n, err) ==
    /\ gate' = Release(gate)
    /\ timer' = timer
    /\ cur' = NoGoroutine
    /\ IF cur.caller = 0
       THEN /\ reader' = [reader EXCEPT !.b = FillReturn(reader.b, n, err)]
            /\ callErr' = NoteErr(err)
            /\ pc' = "search"
            /\ UNCHANGED <<callers, loc, results, linesRead>>
       ELSE /\ callers' = [callers EXCEPT ![cur.caller] =
                               [@ EXCEPT !.pc = "idle", !.calls = @ + 1,
                                         !.res = [n |-> n, err |-> err]]]
            /\ UNCHANGED <<reader, pc, loc, results, linesRead, callErr>>

\* case res := <-resultCh: Read returns res.n, res.err
RecvResult ==
    /\ InSelect
    /\ cur.ch > 0
    /\ reads' = [reads EXCEPT !.given = @ + Len(cur.data), !.last =
                    [n |-> Len(cur.data), err |-> cur.err, waited |-> cur.waited,
                     done |-> cur.done, got |-> cur.data, gotErr |-> cur.err,
                     bytes |-> SubSeq(BufferOf(cur), cur.off + 1, cur.off + Len(cur.data))]]
    /\ Return(Len(cur.data), cur.err)
    /\ UNCHANGED <<sid, cfg, pos, stale>>
    /\ UNCHANGED startVars
    /\ UNCHANGED sideVars

\* case <-ctx.Done(): Read returns 0 and the timeout error; its goroutine, unless it
\* has ended, is left behind
Timeout ==
    /\ InSelect
    /\ CtxDone
    /\ reads' = [timeouts |-> reads.timeouts + 1, given |-> reads.given,
                 last |-> [n |-> 0, err |-> "timeout", waited |-> cur.waited,
                           done |-> cur.done, got |-> cur.data, gotErr |-> cur.err,
                           bytes |-> <<>>]]
    /\ stale' = IF cur.st = "sent" THEN stale ELSE Append(stale, [cur EXCEPT !.waited = 0])
    /\ Return(0, "timeout")
    /\ UNCHANGED <<sid, cfg, pos>>
    /\ UNCHANGED startVars
    /\ UNCHANGED sideVars

\* time passes while a Read call is in the select, or on its way there
Tick ==
    /\ InSelect
    /\ timer < TimeoutT
    /\ timer' = timer + 1
    /\ cur' = [cur EXCEPT !.waited = @ + 1]
    /\ UNCHANGED <<sid, cfg, pos, reader, pc, loc, results, linesRead, callErr, gate, stale,
                   reads, callers>>
    /\ UNCHANGED startVars
    /\ UNCHANGED sideVars

(***************************************************************************)
(* Specifications                                                          *)
(***************************************************************************)
ValidReq == [nil |-> FALSE, Question |-> <<"q">>, marshals |-> TRUE, ctx |-> "set"]

OkResp == [status |-> StatusOK, contentType |-> MimeEventStream]

\* the sizes given to WithStreamBufferSize: none, one below bufio's minimum, one above
BufferSizes == {0, 8, 17}

IdleStream ==
    /\ pos = 0
    /\ reader = NilReader
    /\ pc = "idle"
    /\ loc = EmptyLoc
    /\ results = <<>>
    /\ linesRead = <<>>
    /\ gate = 0
    /\ timer = 0
    /\ cur = NoGoroutine
    /\ stale = <<>>
    /\ reads = NoReads
    /\ callers = NoCallers
    /\ callErr = "nil"
    /\ closes = NoCloses
    /\ cancelReq = NilCancelReq
    /\ cancelRes = NoCancelRes

\* a session that AnalyzeDataStream has just returned, without a read timeout
Init ==
    /\ phase = "open"
    /\ client = "configured"
    /\ req = ValidReq
    /\ resp = OkResp
    /\ netCalls = 1
    /\ startRes = [session |-> TRUE, err |-> "nil", status |-> StatusOK, data |-> <<>>]
    /\ body = "open"
    /\ sid \in 1..Len(Streams)
    /\ cfg \in {[initialBufferSize |-> n, readTimeout |-> 0] : n \in BufferSizes}
    /\ IdleStream

Next == CallReadEvent \/ BodyRead

Spec == Init /\ [][Next]_vars

\* a session opened with WithStreamReadTimeout, on a stream whose blocks arrive whole or
\* on an empty body
InitT ==
    /\ phase = "open"
    /\ client = "configured"
    /\ req = ValidReq
    /\ resp = OkResp
    /\ netCalls = 1
    /\ startRes = [session |-> TRUE, err |-> "nil", status |-> StatusOK, data |-> <<>>]
    /\ body = "open"
    /\ sid \in {i \in 1..Len(Streams) : Streams[i] \in {StreamNumbers, StreamEmpty}}
    /\ cfg = [initialBufferSize |-> 0, readTimeout |-> TimeoutT]
    /\ IdleStream

NextT ==
    \/ CallReadEvent
    \/ Search
    \/ LastByte
    \/ AppendPart
    \/ Slide
    \/ \E i \in 0..Len(stale) : GoRead(i)
    \/ \E i \in 0..Len(stale) : GoCopyPart(i)
    \/ \E i \in 0..Len(stale) : GoCopy(i)
    \/ RecvResult
    \/ Timeout
    \/ Tick

SpecT == InitT /\ [][NextT]_vars

\* a session with a read timeout on a stream that arrives in pieces of lines or of blocks
InitP ==
    /\ phase = "open"
    /\ client = "configured"
    /\ req = ValidReq
    /\ resp = OkResp
    /\ netCalls = 1
    /\ startRes = [session |-> TRUE, err |-> "nil", status |-> StatusOK, data |-> <<>>]
    /\ body = "open"
    /\ sid \in {i \in 1..Len(Streams) : Streams[i] \in SplitStreams}
    /\ cfg = [initialBufferSize |-> 0, readTimeout |-> TimeoutT]
    /\ IdleStream

SpecP == InitP /\ [][NextT]_vars

\* a timeoutReader on the body of a session, read by callers of their own
InitR ==
    /\ phase = "open"
    /\ client = "configured"
    /\ req = ValidReq
    /\ resp = OkResp
    /\ netCalls = 1
    /\ startRes = [session |-> TRUE, err |-> "nil", status |-> StatusOK, data |-> <<>>]
    /\ body = "open"
    /\ sid \in {i \in 1..Len(Streams) : Streams[i] = StreamNumbers}
    /\ cfg = [initialBufferSize |-> 0, readTimeout |-> TimeoutT]
    /\ IdleStream

NextR ==
    \/ \E k \in Callers : ReadCall(k)
    \/ \E k \in Callers : Admit(k)
    \/ \E i \in 0..Len(stale) : GoRead(i)
    \/ \E i \in 0..Len(stale) : GoCopyPart(i)
    \/ \E i \in 0..Len(stale) : GoCopy(i)
    \/ RecvResult
    \/ Timeout
    \/ Tick

SpecR == InitR /\ [][NextR]_vars

\* the goroutines are scheduled: one whose read of the body has returned goes on to
\* its copy and its send when the send can proceed; the body need not deliver
SpecRLive ==
    /\ SpecR
    /\ WF_vars(\E i \in 0..Len(stale) : GoCopy(i))

\* the callers, the timer and the select are scheduled; the body need not deliver
SpecRFair ==
    /\ SpecR
    /\ \A k \in Callers : WF_vars(Admit(k))
    /\ WF_vars(Tick)
    /\ WF_vars(Timeout)

\* a timeoutReader with or without a timeout, read by callers of their own
InitG ==
    /\ phase = "open"
    /\ client = "configured"
    /\ req = ValidReq
    /\ resp = OkResp
    /\ netCalls = 1
    /\ startRes = [session |-> TRUE, err |-> "nil", status |-> StatusOK, data |-> <<>>]
    /\ body = "open"
    /\ sid \in {i \in 1..Len(Streams) : Streams[i] = StreamNumbers}
    /\ cfg \in {[initialBufferSize |-> 0, readTimeout |-> t] : t \in {0, TimeoutT}}
    /\ IdleStream

NextG ==
    \/ NextR
    \/ \E k \in Callers : DirectRead(k)

SpecG == InitG /\ [][NextG]_vars

\* the callers, the timer and the select are scheduled, and the reads of the body made
\* without a timeout complete
SpecGFair ==
    /\ SpecG
    /\ \A k \in Callers : WF_vars(Admit(k))
    /\ \A k \in Callers : WF_vars(DirectRead(k))
    /\ WF_vars(Tick)
    /\ WF_vars(Timeout)

\* a client and a request, before AnalyzeDataStream is called
InitStart ==
    /\ phase = "new"
    /\ client \in {"zero", "configured", "badURL"}
    /\ req \in Requests
    /\ resp \in Responses \cup {NoResp}
    /\ netCalls = 0
    /\ startRes = NoStartRes
    /\ body = "none"
    /\ sid \in {1, Len(Streams)}
    /\ cfg = [initialBufferSize |-> 0, readTimeout |-> 0]
    /\ IdleStream

NextStart == AnalyzeDataStream \/ Close

SpecStart == InitStart /\ [][NextStart]_vars

\* a client, before CancelAnalyze is called
InitCancel ==
    /\ phase = "new"
    /\ client \in {"zero", "configured"}
    /\ req = ValidReq
    /\ resp = OkResp
    /\ netCalls = 0
    /\ startRes = NoStartRes
    /\ body = "none"
    /\ sid = 1
    /\ cfg = [initialBufferSize |-> 0, readTimeout |-> 0]
    /\ IdleStream

NextCancel == CancelAnalyze

SpecCancel == InitCancel /\ [][NextCancel]_vars

(***************************************************************************)
(* What a stream is expected to yield, read off its blocks                 *)
(***************************************************************************)
Blocks == Streams[sid].blocks

IsDataLine(l) == l.k = "data"

IsEventLine(l) == l.k = "event"

HasData(blk) == \E i \in 1..Len(blk.lines) : IsDataLine(blk.lines[i])

\* the blocks that carry data, by their index in the stream, in order
DataBlocks == SelectSeq([i \in 1..Len(Blocks) |-> i], LAMBDA i : HasData(Blocks[i]))

NData == Len(DataBlocks)

\* the i-th block that carries data
DataBlock(i) == Blocks[DataBlocks[i]]

RECURSIVE NewlineJoined(_)
\* the values, a newline before each but the first
NewlineJoined(values) ==
    IF Len(values) = 0 THEN <<>>
    ELSE IF Len(values) = 1 THEN values[1]
    ELSE NewlineJoined(SubSeq(values, 1, Len(values) - 1)) \o <<"\n">> \o values[Len(values)]

\* the values of the block's data: lines, in order
DataValues(blk) ==
    LET ds == SelectSeq(blk.lines, IsDataLine) IN [i \in 1..Len(ds) |-> ds[i].v]

\* the payload of the i-th block that carries data
ExpectedRaw(i) == NewlineJoined(DataValues(DataBlock(i)))

\* the value of the block's last event: line, <<>> when it has none
OwnEventType(blk) ==
    LET es == SelectSeq(blk.lines, IsEventLine)
    IN IF Len(es) = 0 THEN <<>> ELSE es[Len(es)].v

HasEventLine(blk) == \E i \in 1..Len(blk.lines) : IsEventLine(blk.lines[i])

\* an event: line stands in a block without data between the previous block with
\* data and the i-th one
EventLineCarriedTo(i) ==
    \E j \in 1..Len(Blocks) :
        /\ j < DataBlocks[i]
        /\ i > 1 => j > DataBlocks[i - 1]
        /\ HasEventLine(Blocks[j])

\* the string the members give to key, <<>> when they give none
MemberValue(members, key) ==
    LET at == {i \in 1..Len(members) :
                  FieldOf(members[i].key) = FieldOf(key) /\ members[i].t = "str"}
    IN IF at = {} THEN <<>>
       ELSE members[CHOOSE i \in at : \A j \in at : j <= i].v

\* the events returned so far, in order
Events ==
    LET rs == SelectSeq(results, LAMBDA r : r.kind = "event") IN [i \in 1..Len(rs) |-> rs[i].ev]

EndsWithEOF == Streams[sid].endErr = "EOF"

\* the stream has been read to its end
Exhausted == \E i \in 1..Len(results) : results[i].kind = "eof"

\* the first results are the events of the blocks that carry data, one each and in
\* order, and all that follow are the end of stream
OneEventPerBlockThenEOF ==
    \A i \in 1..Len(results) :
        IF i <= NData
        THEN /\ results[i].kind = "event"
             /\ results[i].err = "nil"
             /\ results[i].ev.RawData = ExpectedRaw(i)
        ELSE /\ results[i].kind = "eof"
             /\ results[i].err = "EOF"
             /\ results[i].ev = NoEvent

(***************************************************************************)
(* Claims                                                                  *)
(***************************************************************************)
\* the UTF-8 encodings of the white space characters of Unicode
WhiteSpaceEncodings == {EncodeRune(r) : r \in {x \in 0..12288 : IsSpace(x)}}

RECURSIVE WhiteSpaceOnly(_)
\* s is empty or a sequence of white space characters
WhiteSpaceOnly(s) ==
    IF s = <<>> THEN TRUE
    ELSE \E n \in 1..Min(3, Len(s)) :
            IF Take(s, n) \in WhiteSpaceEncodings THEN WhiteSpaceOnly(Drop(s, n + 1)) ELSE FALSE

\* the Question of request r is empty or made of white space only
BlankQuestion(r) == ~r.nil /\ WhiteSpaceOnly(r.Question)

\* C1: AnalyzeDataStream with a nil request returns ErrNilRequest, and with an empty
\* or whitespace-only Question returns "question cannot be empty"; in both cases
\* there is no session, no HTTP request is issued and the client's transport is not
\* touched, on a zero-value client too.
C1_ValidationBeforeNetwork ==
    (phase # "new" /\ (req.nil \/ BlankQuestion(req))) =>
        /\ phase = "failed"
        /\ ~startRes.session
        /\ startRes.err = (IF req.nil THEN "ErrNilRequest" ELSE "question cannot be empty")
        /\ netCalls = 0
        /\ body = "none"

C1_Witness ==
    /\ phase = "failed"
    /\ client = "zero"
    /\ BlankQuestion(req)
    /\ Len(req.Question) = MaxQuestionLen
    /\ startRes.err = "question cannot be empty"

\* C2: a block of an event: X line and one data: line of JSON that fits the event
\* yields an event whose fields are those of the JSON; a non-empty X is its Type
\* whatever "type" the JSON has, and with no event: line seen the Type is the JSON's.
C2_EventTypeOverridesJson ==
    \A i \in 1..Min(Len(Events), NData) :
        LET blk == DataBlock(i)
            ev == Events[i]
        IN (blk.obj /\ blk.decodes = "ok") =>
              /\ ev.RawData = Render(blk.members)
              /\ ev.Source = MemberValue(blk.members, KeySource)
              /\ ev.StepType = MemberValue(blk.members, KeyStepType)
              /\ ev.StepName = MemberValue(blk.members, KeyStepName)
              /\ OwnEventType(blk) # <<>> => ev.Type = OwnEventType(blk)
              /\ (OwnEventType(blk) = <<>> /\ (HasEventLine(blk) \/ ~EventLineCarriedTo(i)))
                    => ev.Type = MemberValue(blk.members, KeyType)

C2_Witness ==
    /\ Streams[sid] = StreamOverride
    /\ Len(results) >= 3
    /\ results[1].ev.Type = ValX
    /\ MemberValue(DataBlock(1).members, KeyType) = ValY
    /\ results[2].ev.Type = ValY
    /\ results[3].ev.Type = ValX

\* C3: when the stream ends without a blank line after the data lines of its last
\* event, that event is returned exactly once and the call after it returns io.EOF;
\* when the stream ends with no data lines pending, ReadEvent returns io.EOF at once.
C3_FinalEventFlushedOnce ==
    (EndsWithEOF /\ (Streams[sid].term # "blank" \/ ~HasData(Blocks[Len(Blocks)])))
        => OneEventPerBlockThenEOF

C3_Witness ==
    /\ Streams[sid].term = "none"
    /\ NData = 2
    /\ Len(results) = 4
    /\ results[2].kind = "event"
    /\ results[2].ev.RawData = ExpectedRaw(2)
    /\ results[3].kind = "eof"
    /\ results[4].kind = "eof"

\* C4: from a stream of k blocks that each carry data and end with a blank line, then
\* closed, the first k ReadEvent calls return one event each, the i-th that of the
\* i-th block (type and payload), and call k+1 returns io.EOF.
C4_OneEventPerBlockInOrder ==
    (EndsWithEOF /\ Streams[sid].term = "blank" /\ NData = Len(Blocks)) =>
        /\ OneEventPerBlockThenEOF
        /\ \A i \in 1..Min(Len(results), NData) :
              /\ OwnEventType(Blocks[i]) # <<>> => results[i].ev.Type = OwnEventType(Blocks[i])
              /\ (OwnEventType(Blocks[i]) = <<>> /\ Blocks[i].obj /\ Blocks[i].decodes = "ok")
                    => results[i].ev.Type = MemberValue(Blocks[i].members, KeyType)

C4_Witness ==
    /\ Streams[sid] = StreamInitComplete
    /\ Len(results) = 3
    /\ results[1].ev.Type = TypeInit
    /\ results[2].ev.Type = TypeComplete
    /\ results[3].kind = "eof"

\* C5 (as claimed): in a session with a read timeout, whatever calls returned a
\* timeout error in between, the events are returned in the order of their lines on
\* the wire: of two returned events, the one returned first is made of the lines of
\* an earlier block, and no block is returned twice.
C5_EventsInWireOrder ==
    \A i \in 1..Len(Events) : \A j \in (i + 1)..Len(Events) :
        \A a \in 1..NData : \A b \in 1..NData :
            (Events[i].RawData = ExpectedRaw(a) /\ Events[j].RawData = ExpectedRaw(b)) => a < b

\* the Read call that returned last had been served in time: the body had delivered
\* bytes to its goroutine, which had handed them over before the window of that call
\* ran out
ServedInTime ==
    /\ reads.last.got # <<>>
    /\ reads.last.done >= 0
    /\ reads.last.done < TimeoutT

\* C6 (as claimed): with the timeout T, a Read call of the timeoutReader waits for T at
\* most and then returns the timeout error; the window is that of the call, whatever
\* time the calls before it have spent: a call returns the timeout error only after
\* waiting T itself, and a read to which the stream delivers bytes before its window
\* runs out does not time out
C6_TimeoutWindowPerRead ==
    /\ reads.last.err = "timeout" => reads.last.waited = TimeoutT
    /\ reads.last.waited <= TimeoutT
    /\ pc = "select" =>
          /\ cur.waited <= TimeoutT
          /\ timer = cur.waited
          /\ cur.waited = TimeoutT => ENABLED Timeout
    /\ reads.last.err = "timeout" => ~ServedInTime

\* C7: a payload that is not valid JSON makes no ReadEvent call return an error: the
\* call returns an event, with a nil error, whose RawData is the block's data lines
\* joined by newlines.
C7_MalformedPayloadIsNoError ==
    \A i \in 1..Len(results) :
        /\ results[i].kind = "error" => results[i].err = "ioerr" /\ ~EndsWithEOF
        /\ (i <= NData /\ DataBlock(i).decodes = "syntax" /\ results[i].kind # "error") =>
              /\ results[i].kind = "event"
              /\ results[i].err = "nil"
              /\ results[i].ev.RawData = ExpectedRaw(i)

C7_Witness ==
    /\ Streams[sid] = StreamMalformed
    /\ Len(results) = 4
    /\ \A i \in 1..3 : DataBlock(i).decodes = "syntax" /\ results[i].kind = "event"
    /\ results[4].kind = "eof"

\* C8 (as claimed): whenever the decode of the payload fails, for a syntax error as
\* for a value of the wrong type, the event has its RawData, the Type of the event:
\* line seen (empty without one), and empty Source, StepType and StepName.
C8_FailedDecodeLeavesOnlyRawData ==
    \A i \in 1..Min(Len(Events), NData) :
        LET blk == DataBlock(i)
            ev == Events[i]
        IN (blk.decodes # "ok" /\ (HasEventLine(blk) \/ ~EventLineCarriedTo(i))) =>
              /\ ev.RawData = ExpectedRaw(i)
              /\ ev.Type = OwnEventType(blk)
              /\ ev.Source = <<>>
              /\ ev.StepType = <<>>
              /\ ev.StepName = <<>>

\* C9: the data: lines of one block, each without its prefix, joined by one newline
\* in the order they came, with no newline at the end, are the RawData of the event
\* and the text that is decoded.
C9_DataLinesJoinedByNewline ==
    \A i \in 1..Min(Len(Events), NData) :
        LET blk == DataBlock(i)
            ev == Events[i]
            dec == Unmarshal(ExpectedRaw(i), ZeroEvent)
        IN /\ ev.RawData = ExpectedRaw(i)
           /\ blk.decodes = "ok" =>
                 /\ dec.err = "nil"
                 /\ ev.Source = dec.ev.Source
                 /\ ev.StepType = dec.ev.StepType
                 /\ ev.StepName = dec.ev.StepName

C9_Witness ==
    /\ Streams[sid] = StreamMultiLine
    /\ Len(Events) = 3
    /\ Len(DataValues(DataBlock(2))) = 3
    /\ Events[2].RawData = <<"{", "\n", "\n", "}">>
    /\ Events[1].Type = <<"m">>
    /\ Events[3].Source = <<"s">>

RECURSIVE ExpectedLinesFrom(_)
\* the lines of blocks i.. as they stand on the wire, a blank line after each block
ExpectedLinesFrom(i) ==
    IF i > Len(Blocks) THEN <<>>
    ELSE [k \in 1..Len(Blocks[i].lines) |-> LineBytes(Blocks[i].lines[k])]
         \o (IF i < Len(Blocks) \/ Streams[sid].term = "blank" THEN <<<<>>>> ELSE <<>>)
         \o ExpectedLinesFrom(i + 1)

ExpectedLines == ExpectedLinesFrom(1)

IsPrefixOf(s, t) == Len(s) <= Len(t) /\ s = SubSeq(t, 1, Len(s))

\* C10: whatever the length of a line and the size of the buffer, readLine returns
\* each line whole: the bytes between two line terminators of the wire as one string,
\* nothing lost, repeated or split.
C10_LinesReturnedWhole ==
    /\ IsPrefixOf(linesRead, ExpectedLines)
    /\ Exhausted => linesRead = ExpectedLines

C10_Witness ==
    /\ Exhausted
    /\ cfg.initialBufferSize = 8
    /\ reader.b.size = MinReadBufferSize
    /\ \E i \in 1..Len(linesRead) : Len(linesRead[i]) > 2 * reader.b.size
    /\ linesRead = ExpectedLines

\* C11: Close returns nil and never panics, on a nil session, on a session without a
\* body and on a session closed before; once a session with a body has been closed
\* its body is closed and stays so whatever Close calls follow.
C11_CloseIdempotentNilSafe ==
    /\ closes.count > 0 => closes.last.ret = "nil"
    /\ closes.released => body = "closed"
    /\ (closes.count > 0 /\ closes.last.recv = "session" /\ closes.last.before # "none") =>
            closes.released

\* a second Close on the session that the first one has closed
C11_Witness ==
    /\ closes.count >= 2
    /\ closes.released
    /\ closes.last.recv = "session" /\ closes.last.before = "closed"
    /\ closes.last.ret = "nil"
    /\ body = "closed"

\* the RequestID of the last CancelAnalyze call is made of white space only
BlankRequestID == WhiteSpaceOnly(cancelReq.RequestID)

\* C12: CancelAnalyze with a nil request returns ErrNilRequest, and with an empty or
\* white-space-only RequestID the error "request_id cannot be empty"; either way it
\* returns no response and makes no network call.
C12_CancelValidationBeforeNetwork ==
    cancelRes.count > 0 =>
        /\ cancelReq.nil =>
              /\ cancelRes.last.err = "ErrNilRequest"
              /\ ~cancelRes.last.resp /\ cancelRes.last.calls = 0
        /\ (~cancelReq.nil /\ BlankRequestID) =>
              /\ cancelRes.last.err = "request_id cannot be empty"
              /\ ~cancelRes.last.resp /\ cancelRes.last.calls = 0
        /\ cancelRes.last.calls = 0 => netCalls < cancelRes.count

\* a configured client was given a RequestID of two white-space bytes and nothing was sent
C12_Witness ==
    /\ client = "configured"
    /\ cancelRes.count = 1
    /\ ~cancelReq.nil /\ Len(cancelReq.RequestID) = MaxRequestIDLen /\ BlankRequestID
    /\ cancelRes.last.err = "request_id cannot be empty"
    /\ netCalls = 0

\* AnalyzeDataStream has sent its request and got the response
Answered == phase \in {"open", "failed"} /\ netCalls = 1 /\ resp # NoResp

\* C13: when the response has a status outside 200..299, AnalyzeDataStream returns no
\* session and an HTTPError with that status and the whole body, and the response
\* body is closed.
C13_NonSuccessStatusIsHTTPError ==
    (Answered /\ (resp.status < 200 \/ resp.status > 299)) =>
        /\ ~startRes.session
        /\ startRes.err = "HTTPError"
        /\ startRes.status = resp.status
        /\ startRes.data = Streams[sid].wire
        /\ body = "closed"

\* the status just past the successful ones, with a body to drain
C13_Witness ==
    /\ Answered
    /\ resp.status = 300
    /\ startRes.err = "HTTPError" /\ startRes.status = 300
    /\ Len(startRes.data) > 0
    /\ body = "closed"

\* C14: when the response has a 2xx status, AnalyzeDataStream returns a session if
\* and only if the Content-Type contains text/event-stream or text/plain; the session
\* has the body open and unread; otherwise the error is no HTTPError, carries the
\* content type and the whole body, and the body is closed.
C14_ContentTypeDecidesSession ==
    (Answered /\ resp.status >= 200 /\ resp.status <= 299) =>
        /\ startRes.session <=>
              resp.contentType \in {MimeEventStream, MimePlain, MimeEventStreamCharset}
        /\ startRes.session =>
              /\ startRes.err = "nil"
              /\ pos = 0
              /\ body = IF closes.released THEN "closed" ELSE "open"
        /\ ~startRes.session =>
              /\ startRes.err = "unexpected content type"
              /\ startRes.data = resp.contentType \o Streams[sid].wire
              /\ body = "closed"

\* a 2xx response that is JSON, not a stream
C14_Witness ==
    /\ Answered
    /\ resp.status = 299
    /\ resp.contentType = MimeJSON
    /\ ~startRes.session
    /\ startRes.err = "unexpected content type"
    /\ body = "closed"

(***************************************************************************)
(* The timeoutReader under callers of its own                              *)
(***************************************************************************)

\* the Read calls that hold the gate: they have sent on r.readMutex and have not
\* returned
Admitted == {k \in Callers : callers[k].pc = "select"}

\* C15: the gate admits one Read call at a time: no two calls are between acquiring
\* and releasing it together, the call that holds it is the one whose goroutine and
\* context are current, and a call that overlaps it is still waiting to be admitted
C15_GateAdmitsOneRead ==
    /\ Cardinality(Admitted) <= 1
    /\ gate = Cardinality(Admitted)
    /\ \A k \in Admitted : cur.caller = k /\ cur.st # "none"
    /\ Admitted = {} => cur = NoGoroutine

\* a call waits at the gate while another holds it
C15_Witness ==
    \E k, j \in Callers : callers[k].pc = "select" /\ callers[j].pc = "gate"

\* the goroutines that are in r.reader.Read(buf)
InFlight == {i \in 0..Len(stale) : Goroutine(i).st = "reading"}

\* C16: at most one read of the body issued by the timeoutReader is in flight, also
\* when a Read call starts after an earlier one returned the timeout error
C16_OneReadInFlight == Cardinality(InFlight) <= 1

\* the read of the body of the Read call that returned last had completed before the
\* timeout elapsed
CompletedInTime == reads.last.done >= 0 /\ reads.last.done < TimeoutT

\* C17: a Read call whose read of the body completed before the timeout elapsed returns
\* what that read returned: the same count, those bytes in p, the same error, io.EOF
\* as io.EOF, and not the timeout error
C17_CompletedReadReturnedUnchanged ==
    (reads.last.err # "none" /\ CompletedInTime) =>
        /\ reads.last.err # "timeout"
        /\ reads.last.n = Len(reads.last.got)
        /\ reads.last.err = reads.last.gotErr
        /\ reads.last.bytes = reads.last.got

\* a Read call of caller k has begun and has not returned
InRead(k) == callers[k].pc \in {"gate", "select", "direct"}

\* what a Read call that returned the timeout error left: no bytes, and the gate free for
\* the next call
TimedOutCleanly ==
    /\ \A k \in Callers : callers[k].res.err = "timeout" => callers[k].res.n = 0
    /\ Admitted = {} => gate = 0

\* C18: every Read call returns, whether or not the read of the body ever does; the
\* call that the timeout ends returns 0 and the timeout error and releases the gate
C18_ReadReturnsByTimeout ==
    /\ []TimedOutCleanly
    /\ \A k \in Callers : InRead(k) ~> ~InRead(k)

\* a Read call has returned the timeout error and the gate is free while its goroutine
\* is still in the read of the body
C18_Witness ==
    \E k \in Callers :
        /\ callers[k].pc = "idle"
        /\ callers[k].res = [n |-> 0, err |-> "timeout"]
        /\ gate = 0
        /\ \E i \in 1..Len(stale) : stale[i].caller = k /\ stale[i].st = "reading"

(***************************************************************************)
(* Errors of the read of the body during ReadEvent                         *)
(***************************************************************************)

\* C19: when a read of the body has given an error but io.EOF to a ReadEvent call, that
\* call reads no further and returns that error and no event, whatever data lines or
\* piece of a line were pending
C19_ReadErrorEndsTheCall ==
    callErr # "nil" =>
        /\ pc \notin {"fill", "slide", "select"}
        /\ pc = "idle" =>
              /\ Len(results) > 0
              /\ results[Len(results)] = [kind |-> "error", err |-> callErr, ev |-> NoEvent]

\* C20: when the timeoutReader reports a timeout to a readLine call, readLine returns no
\* line, neither the bytes received so far nor any other, and the timeout error ends
\* the ReadEvent call: its result is that error, not an event and not io.EOF
C20_TimeoutEndsReadLine ==
    [][(callErr = "timeout" /\ pc # "idle") =>
          /\ linesRead' = linesRead
          /\ pc' \in {pc, "idle"}
          /\ pc' = "idle" =>
                results' = Append(results, [kind |-> "error", err |-> "timeout", ev |-> NoEvent])]_vars

(***************************************************************************)
(* The end of the stream                                                   *)
(***************************************************************************)

\* the bytes of the wire after its last line feed: the line the end of the stream cuts off
WireTail ==
    LET nls == {i \in 1..Len(Wire) : Wire[i] = NL}
    IN IF nls = {} THEN Wire ELSE SubSeq(Wire, (CHOOSE i \in nls : \A j \in nls : j <= i) + 1, Len(Wire))

\* C21: when the stream ends inside a line, readLine returns what it holds of that line
\* once, as a line and without an error, and its next call returns io.EOF, which ends the
\* ReadEvent call; when the stream ends with nothing held, readLine returns io.EOF and
\* no line
C21_TailReturnedOnceThenEOF ==
    EndsWithEOF =>
        /\ Len(linesRead) <= Len(ExpectedLines)
        /\ (WireTail # <<>> /\ Len(linesRead) = Len(ExpectedLines)) =>
              /\ linesRead[Len(linesRead)] = WireTail
              /\ pc = "idle" => Len(results) > 0 /\ results[Len(results)].kind \in {"event", "eof"}
              /\ pc = "idle" => Len(Events) = NData
        /\ Exhausted =>
              /\ Len(linesRead) = Len(ExpectedLines)
              /\ WireTail # <<>> => linesRead[Len(linesRead)] = WireTail
        /\ \A i \in 1..Len(results) : results[i].kind # "error"

\* the stream ended inside a line that had filled the buffer: readLine held it when
\* io.EOF came, returned it, and the event was flushed before the end of the stream
C21_Witness ==
    /\ Streams[sid] = StreamFullTail
    /\ reader.b.size = Len(Wire)
    /\ linesRead = <<Wire>>
    /\ Len(results) = 2
    /\ results[1].kind = "event"
    /\ results[1].ev.RawData = ExpectedRaw(1)
    /\ results[2].kind = "eof"

(***************************************************************************)
(* Blank lines and lines that are no fields of the event                   *)
(***************************************************************************)

\* the lines of the wire that are not empty and start with neither prefix
IgnoredLines ==
    {ExpectedLines[i] : i \in {j \in 1..Len(ExpectedLines) :
        /\ ExpectedLines[j] # <<>>
        /\ ~HasPrefix(ExpectedLines[j], DataPrefix)
        /\ ~HasPrefix(ExpectedLines[j], EventPrefix)}}

\* C22: a blank line with no data lines pending yields no event: the events returned are
\* those of the blocks that carry data lines, one each, with the data lines of the block as
\* payload; a line that starts with neither `data: ` nor `event: ` leaves the pending data
\* lines and the pending event type as they are
C22_OnlyDataBlocksYieldEvents ==
    /\ Len(Events) <= NData
    /\ \A i \in 1..Len(Events) :
          /\ Len(DataValues(DataBlock(i))) >= 1
          /\ Events[i].RawData = ExpectedRaw(i)
    /\ \A l \in IgnoredLines : OnField(loc, l) = loc

\* the stream of comments, id: and retry: lines, a data line without the space and blocks
\* without data has been read to its end: two events for six blocks
C22_Witness ==
    /\ Streams[sid] = StreamSparse
    /\ Exhausted
    /\ Cardinality(IgnoredLines) = 4
    /\ Len(Blocks) = 6
    /\ Len(Events) = 2
    /\ Events[1].RawData = ExpectedRaw(1)
    /\ Events[2].RawData = ExpectedRaw(2)

\* C23: the end of the stream is reported as io.EOF itself with no event, never wrapped
\* into an error and never along with an event, and once a ReadEvent call has returned
\* it every later call returns it too, and no event
C23_EndOfStreamIsTerminal ==
    \A i \in 1..Len(results) :
        /\ results[i].err = "EOF" => results[i].kind = "eof"
        /\ results[i].kind = "eof" =>
              /\ results[i] = [kind |-> "eof", err |-> "EOF", ev |-> NoEvent]
              /\ \A j \in (i + 1)..Len(results) : results[j].kind = "eof"

(***************************************************************************)
(* What the goroutine of a Read call that timed out still does             *)
(***************************************************************************)

\* C24: the buffer p of a Read call is not written once the call has returned: while
\* its caller is between two Read calls, also after a timeout error, p stays as it is
C24_BufferUntouchedAfterReturn ==
    [][\A k \in Callers :
          (callers[k].pc = "idle" /\ callers'[k].pc = "idle") => callers'[k].p = callers[k].p]_vars

\* no goroutine of the timeoutReader is left and no Read call is in progress
Quiet == cur = NoGoroutine /\ stale = <<>> /\ \A k \in Callers : callers[k].pc = "idle"

\* C25: the bytes the Read calls report as read are the bytes taken from the body, in
\* order and with none missing: each call that reports bytes reports those that follow
\* the ones reported before it, and when nothing is in progress the bytes reported are
\* as many as the bytes taken
C25_NoByteLost ==
    /\ reads.last.err \notin {"none", "timeout"} =>
          reads.last.bytes = SubSeq(Wire, reads.given - reads.last.n + 1, reads.given)
    /\ Quiet => reads.given = pos

(***************************************************************************)
(* Events and the blocks of the wire                                       *)
(***************************************************************************)

\* C26: every event returned, also by a call made after a call that returned the timeout
\* error, carries as RawData all the data lines of one block of the wire, joined by
\* newlines: not a part of a block, not lines of two blocks
C26_EventIsOneWholeBlock ==
    \A i \in 1..Len(Events) : \E j \in 1..NData : Events[i].RawData = ExpectedRaw(j)

\* the JSON "type" of the i-th block that carries data, or its event type if it has one
TypeWith(i, eventType) ==
    IF eventType # <<>> THEN eventType ELSE MemberValue(DataBlock(i).members, KeyType)

\* the value of the last event: line from the block after the (i-1)-th block that carries
\* data up to the i-th one, <<>> when there is none
PendingEventType(i) ==
    LET from == IF i = 1 THEN 1 ELSE DataBlocks[i - 1] + 1
        at == {j \in from..DataBlocks[i] : HasEventLine(Blocks[j])}
    IN IF at = {} THEN <<>> ELSE OwnEventType(Blocks[CHOOSE j \in at : \A k \in at : k <= j])

\* the blocks whose JSON decodes into the event
Decoded(i) == DataBlock(i).obj /\ DataBlock(i).decodes = "ok"

\* C27 as claimed: the Type of an event is overridden by an event: line of its own block
\* only; an event: line of an earlier block without data lines does not set it
C27_TypeFromOwnBlockOnly ==
    \A i \in 1..Min(Len(Events), NData) :
        Decoded(i) => Events[i].Type = TypeWith(i, OwnEventType(DataBlock(i)))

\* C27 as amended: the Type of an event is overridden by the last event: line that the
\* ReadEvent call read before it dispatched, be it in the block of the data lines or in a
\* block without data lines before it; an event: line of a block that yielded an event
\* sets the Type of no later event
C27_TypeFromLastEventLineOfCall ==
    \A i \in 1..Min(Len(Events), NData) :
        Decoded(i) => Events[i].Type = TypeWith(i, PendingEventType(i))

\* the event of a block without event: line and without "type" has the type of the
\* event: line that stands alone in the block before it
C27_Witness ==
    /\ Streams[sid] = StreamSparse
    /\ Len(Events) = 2
    /\ ~HasEventLine(DataBlock(2))
    /\ MemberValue(DataBlock(2).members, KeyType) = <<>>
    /\ OwnEventType(Blocks[DataBlocks[2] - 1]) = ValY
    /\ Events[2].Type = ValY

(***************************************************************************)
(* The release of the gate                                                 *)
(***************************************************************************)

\* the Read calls between the send on r.readMutex and their return
Holding == {k \in Callers : callers[k].pc \in {"select", "direct"}}

\* the gate holds one token for each Read call that is executing and none otherwise
GateFollowsCalls == gate = Cardinality(Holding)

\* C28: every return of Read, from the direct read, with the result of the read and by
\* the timeout, frees the gate: the gate is free whenever no Read call is executing, and
\* a caller that waits at a free gate gets in
C28_GateAlwaysReleased ==
    /\ []GateFollowsCalls
    /\ \A k \in Callers : (callers[k].pc = "gate" /\ gate = 0) ~> callers[k].pc # "gate"

\* a Read call has returned the timeout error and left its goroutine behind, and
\* another caller has got in
C28_Witness ==
    \E j, k \in Callers :
        /\ j # k
        /\ callers[j].pc = "idle" /\ callers[j].res.err = "timeout"
        /\ \E i \in 1..Len(stale) : stale[i].caller = j
        /\ callers[k].pc = "select"
        /\ gate = 1

(***************************************************************************)
(* The end of the goroutines                                               *)
(***************************************************************************)

\* the goroutines of Read calls that have not ended
Live == {i \in 0..Len(stale) : Goroutine(i).st \in {"reading", "got"}}

\* the goroutines whose read of the body has returned and that have not ended: they are
\* at their copy or at their send
HandingOver == {i \in 0..Len(stale) : Goroutine(i).st = "got"}

\* C29 (as claimed): a goroutine started by Read never blocks on handing over its result,
\* and the goroutines alive are never more than the reads of the body that have not
\* returned
C29_LiveWithinReadsInFlight ==
    /\ \A i \in HandingOver : Goroutine(i).ch < ResultChCap
    /\ Cardinality(Live) <= Cardinality(InFlight)

\* C29 (amended): a goroutine started by Read never blocks on handing over its result:
\* when its read of the body has returned, the result channel of its Read call has
\* room, whether that call is still in the select or has returned the timeout error,
\* and the goroutine, once scheduled, ends; the goroutines left behind are in the read
\* of the body or at their copy and send, so that in the end the goroutines alive are
\* those whose read of the body has not returned
C29_GoroutineNeverBlocksOnResult ==
    /\ [](\A i \in HandingOver : Goroutine(i).ch < ResultChCap)
    /\ [](\A i \in 1..Len(stale) : stale[i].st \in {"reading", "got"})
    /\ <>[](HandingOver = {} /\ Cardinality(Live) <= Cardinality(InFlight))

\* the read of the body has returned in a goroutine whose Read call returned the
\* timeout error before, and the goroutine can end
C29_Witness ==
    \E i \in 1..Len(stale) :
        /\ stale[i].st = "got"
        /\ stale[i].caller \in Callers
        /\ callers[stale[i].caller].pc = "idle"
        /\ callers[stale[i].caller].res.err = "timeout"
        /\ ENABLED GoCopy(i)

(***************************************************************************)
(* The results as a function of the bytes of the stream                    *)
(***************************************************************************)

\* the session over stream i that has the default buffer and whose first read of the
\* body returns all the bytes of the stream, the next ones the final error: ReadEvent
\* called from reader b with locals l, out being the results returned so far
RECURSIVE OneReadSession(_, _, _, _, _)
OneReadSession(i, b, l, fed, out) ==
    With(ReadEvent([b |-> b, line |-> l.line, dataLines |-> l.dataLines,
                    eventType |-> l.eventType, seen |-> <<>>]), LAMBDA o :
        IF o.st = "fill"
        THEN With([line |-> o.c.line, dataLines |-> o.c.dataLines, eventType |-> o.c.eventType],
                  LAMBDA l2 :
                 IF ~fed /\ Len(Streams[i].wire) > 0
                 THEN With(FillReturn([o.c.b EXCEPT !.buf = CopyAt(o.c.b.buf, o.c.b.w, Streams[i].wire)],
                                      Len(Streams[i].wire), "nil"),
                           LAMBDA b2 : OneReadSession(i, b2, l2, TRUE, out))
                 ELSE With(FillReturn(o.c.b, 0, Streams[i].endErr),
                           LAMBDA b2 : OneReadSession(i, b2, l2, TRUE, out)))
        ELSE IF Len(out) + 1 >= MaxCalls
        THEN Append(out, o.res)
        ELSE With(Append(out, o.res), LAMBDA out2 : OneReadSession(i, o.c.b, EmptyLoc, fed, out2)))

\* the results of MaxCalls calls of ReadEvent in that session, for every stream
ResultsOfBytes ==
    [i \in 1..Len(Streams) |->
        OneReadSession(i, NewReaderSize(DefaultBufferSize), EmptyLoc, FALSE, <<>>)]

\* C30: without a read timeout the results of ReadEvent are those of the bytes of the
\* stream: whatever the initial buffer size and however the reads of the body split
\* the bytes, the calls return what they return in the session that gets all the
\* bytes in one read, in the same order
C30_ResultsDependOnBytesOnly ==
    IsPrefixOf(results, ResultsOfBytes[sid])

\* a session with a small buffer, every read of whose body has returned less than a
\* line, has returned an event and the end of the stream
C30_Witness ==
    /\ cfg.initialBufferSize = 8
    /\ Streams[sid].flush # "blocks"
    /\ Len(Events) > 0
    /\ Exhausted
    /\ results = SubSeq(ResultsOfBytes[sid], 1, Len(results))

====
